---- MODULE Spec2Model ----
(***************************************************************************)
(* A model of the rusty-nes 6502 core: Memory (cpu/memory.rs), the         *)
(* register file, flag algebra and stack (cpu/base.rs), the addressing     *)
(* mode resolver (cpu/addressing.rs), the decoder and the instruction      *)
(* handlers (cpu/opcodes.rs) and the single-step exec (cpu/mod.rs).        *)
(*                                                                         *)
(* A processor is the record P = [mem, a, sp, pc, x, y, status, cycles,    *)
(* fault, checks, wrapped]: mem is Memory.ram kept sparsely (a function on *)
(* the cells that hold a non-zero byte; every other cell is 0, as after    *)
(* Memory::new) and fault is "none" until a panic unwinds the process.     *)
(* Integer overflow panics in a build with overflow checks (debug) and     *)
(* wraps in one without (release): checks says which the step at hand      *)
(* does, and wrapped records that an overflow has wrapped, after which     *)
(* the build is known to be one without checks.                            *)
(***************************************************************************)
EXTENDS Integers, Sequences, FiniteSets, TLC

VARIABLES
    mem,     \* Processor.mem: Memory.ram, sparse
    state,   \* Processor.state: [a, sp, pc, x, y, status]
    cycles,  \* Processor.cycles
    fault,   \* "none", or the panic that ended the process
    checks,  \* "either" build, or "off" once an overflow has wrapped
    trace    \* the operations performed so far, each with the processor before it

vars == <<mem, state, cycles, fault, checks, trace>>

(***************************************************************************)
(* Program constants.                                                      *)
(***************************************************************************)
MEMORY_MAX == 65536
RAM_TOP == 2048
MIRROR_TOP == 8192
ZERO_PAGE_TOP == 256
RESET_VECTOR == 65532
ROM_START == 32768

N_FLAG == 128
V_FLAG == 64
F_FLAG == 32
B_FLAG == 16
D_FLAG == 8
I_FLAG == 4
Z_FLAG == 2
C_FLAG == 1
SIGN_BIT == 128

\* The modulus usize arithmetic wraps at in a build without overflow checks.
\* The real modulus (2^64) is beyond the model checker's integers; 2^30 stands
\* for it: a wrapped value lies far outside the 64KB array either way.
USIZE_WRAP == 1073741824

(***************************************************************************)
(* 8-bit arithmetic.                                                       *)
(***************************************************************************)
Bit(v, i) == (v \div (2 ^ i)) % 2

And8(m, n) ==
    LET b(i) == Bit(m, i) * Bit(n, i)
    IN  b(0) + 2 * b(1) + 4 * b(2) + 8 * b(3) + 16 * b(4) + 32 * b(5)
          + 64 * b(6) + 128 * b(7)

Or8(m, n) ==
    LET b(i) == IF Bit(m, i) + Bit(n, i) > 0 THEN 1 ELSE 0
    IN  b(0) + 2 * b(1) + 4 * b(2) + 8 * b(3) + 16 * b(4) + 32 * b(5)
          + 64 * b(6) + 128 * b(7)

Xor8(m, n) ==
    LET b(i) == (Bit(m, i) + Bit(n, i)) % 2
    IN  b(0) + 2 * b(1) + 4 * b(2) + 8 * b(3) + 16 * b(4) + 32 * b(5)
          + 64 * b(6) + 128 * b(7)

Not8(m) == 255 - m

\* u8::overflowing_add: the wrapped sum and whether it overflowed
overflowing_add(m, n) == [r |-> (m + n) % 256, c |-> m + n > 255]

wrapping_sub(m, n) == (m - n + 256) % 256

wrapping_add(m, n) == (m + n) % 256

(***************************************************************************)
(* Memory (cpu/memory.rs).                                                 *)
(***************************************************************************)
\* the cell ram[address] of the sparse array
ramAt(ram, address) == IF address \in DOMAIN ram THEN ram[address] ELSE 0

\* ram with ram[address] = value
ramSet(ram, address, value) ==
    IF value = 0
    THEN [c \in (DOMAIN ram) \ {address} |-> ram[c]]
    ELSE [c \in (DOMAIN ram) \cup {address} |->
            IF c = address THEN value ELSE ram[c]]

\* Memory::new: every cell 0
NewMemory == [c \in {} |-> 0]

\* whether ram[address] is inside the array
InRam(address) == address >= 0 /\ address < MEMORY_MAX

\* a write that folds the mirror windows onto the RAM: the variant the
\* frame of write tells apart
write_mirrored(ram, address, value) ==
    ramSet(ram, IF address < MIRROR_TOP THEN address % RAM_TOP ELSE address,
           value)

\* Memory::write, for an address inside the array
write(ram, address, value) == ramSet(ram, address, value)

\* a read without the mirror: the variant the mirror invariant tells apart
read_unmirrored(ram, address) == ramAt(ram, address)

\* Memory::read, for an address inside the array
read(ram, address) ==
    IF address < MIRROR_TOP
    THEN ramAt(ram, address % RAM_TOP)
    ELSE ramAt(ram, address)

\* Memory::load, for a slice inside the array: copy_from_slice, which for
\* each i sets ram[address + i] = data[i]
load(ram, address, data) ==
    LET slice == address..(address + Len(data) - 1)
        cell(c) == IF c \in slice THEN data[c - address + 1] ELSE ram[c]
    IN  [c \in {d \in (DOMAIN ram) \cup slice : cell(d) # 0} |-> cell(c)]

(***************************************************************************)
(* Register file, flag algebra and stack (cpu/base.rs).                    *)
(***************************************************************************)
\* a panic: the process unwinds with the state as it is
Panic(P, why) == [P EXCEPT !.fault = why]

\* an integer overflow that wrapped: the build has no overflow checks
Wrapped(P) == [P EXCEPT !.wrapped = TRUE]

stack_top(P) == ZERO_PAGE_TOP + P.sp

stack_push(P, value) ==
    [P EXCEPT !.mem = write(P.mem, stack_top(P), value),
              !.sp = IF P.sp = 0 THEN 255 ELSE P.sp - 1]

\* a pop that reads before it increments: the variant the round trip tells
\* apart
stack_pop_read_first(P) ==
    [P |-> [P EXCEPT !.sp = IF P.sp = 255 THEN 0 ELSE P.sp + 1],
     value |-> read(P.mem, stack_top(P))]

\* stack_pop: the processor afterwards and the byte returned
stack_pop(P) ==
    LET Q == [P EXCEPT !.sp = IF P.sp = 255 THEN 0 ELSE P.sp + 1]
    IN  [P |-> Q, value |-> read(Q.mem, stack_top(Q))]

update_pc(P, delta) ==
    IF delta < 0
    THEN IF P.pc >= -delta
         THEN [P EXCEPT !.pc = P.pc + delta]
         ELSE IF P.checks
              THEN Panic(P, "overflow")
              ELSE Wrapped([P EXCEPT !.pc = P.pc + delta + USIZE_WRAP])
    ELSE [P EXCEPT !.pc = P.pc + delta]

jump(P, new_pc) == [P EXCEPT !.pc = new_pc]

\* a counter that is assigned the cost instead of advanced by it
update_cycles_assigned(P, n) == [P EXCEPT !.cycles = n]

update_cycles(P, n) == [P EXCEPT !.cycles = P.cycles + n]

\* status |= flag when toggle, status &= !flag otherwise
set_flag(status, flag, toggle) ==
    IF toggle THEN Or8(status, flag) ELSE And8(status, Not8(flag))

update_n_flag(P, value) ==
    [P EXCEPT !.status = set_flag(P.status, N_FLAG, And8(value, SIGN_BIT) # 0)]

update_z_flag(P, value) ==
    [P EXCEPT !.status = set_flag(P.status, Z_FLAG, value = 0)]

set_carry(P, toggle) == [P EXCEPT !.status = set_flag(P.status, C_FLAG, toggle)]

set_z(P, toggle) == [P EXCEPT !.status = set_flag(P.status, Z_FLAG, toggle)]

set_n(P, toggle) == [P EXCEPT !.status = set_flag(P.status, N_FLAG, toggle)]

\* the test of update_v and of update_status's V arm
overflow_bit(lhs, rhs, result) ==
    And8(And8(Not8(Xor8(lhs, rhs)), Xor8(lhs, result)), SIGN_BIT) # 0

\* an update_v that tests for operands of unequal sign
update_v_unequal(P, lhs, rhs, result) ==
    [P EXCEPT !.status =
        set_flag(P.status, V_FLAG,
                 And8(And8(Xor8(lhs, rhs), Xor8(lhs, result)), SIGN_BIT) # 0)]

update_v(P, lhs, rhs, result) ==
    [P EXCEPT !.status = set_flag(P.status, V_FLAG, overflow_bit(lhs, rhs, result))]

\* update_status with new_status built from zero rather than from the
\* status register
update_status_rebuilt(P, m, n, result, flags) ==
    LET s0 == 0
        s1 == IF And8(flags, C_FLAG) # 0
              THEN set_flag(s0, C_FLAG, m + n > 255) ELSE s0
        s2 == IF And8(flags, Z_FLAG) # 0
              THEN set_flag(s1, Z_FLAG, result = 0) ELSE s1
        s3 == IF And8(flags, N_FLAG) # 0
              THEN set_flag(s2, SIGN_BIT, And8(result, SIGN_BIT) > 0) ELSE s2
        s4 == IF And8(flags, V_FLAG) # 0
              THEN set_flag(s3, V_FLAG, overflow_bit(m, n, result)) ELSE s3
    IN  [P EXCEPT !.status = s4]

update_status(P, m, n, result, flags) ==
    LET s0 == P.status
        s1 == IF And8(flags, C_FLAG) # 0
              THEN set_flag(s0, C_FLAG, m + n > 255) ELSE s0
        s2 == IF And8(flags, Z_FLAG) # 0
              THEN set_flag(s1, Z_FLAG, result = 0) ELSE s1
        s3 == IF And8(flags, N_FLAG) # 0
              THEN set_flag(s2, SIGN_BIT, And8(result, SIGN_BIT) > 0) ELSE s2
        s4 == IF And8(flags, V_FLAG) # 0
              THEN set_flag(s3, V_FLAG, overflow_bit(m, n, result)) ELSE s3
    IN  [P EXCEPT !.status = s4]

(***************************************************************************)
(* Addressing-mode resolver (cpu/addressing.rs).                           *)
(***************************************************************************)
Modes ==
    {"ZeroPage", "Absolute", "Accumulator", "Immediate", "Implied", "Indirect",
     "IndexedY", "IndexedX", "ZeroPageX", "ZeroPageY", "AbsoluteX", "AbsoluteY",
     "Relative"}

\* a resolver result: the processor afterwards and the address returned
Resolved(P, address) == [P |-> P, address |-> address]

\* u8 + u8 as the resolver's zero-page index sums compute it
add_u8(P, m, n) ==
    IF m + n > 255
    THEN IF P.checks
         THEN [P |-> Panic(P, "overflow"), value |-> 0]
         ELSE [P |-> Wrapped(P), value |-> (m + n) % 256]
    ELSE [P |-> P, value |-> m + n]

\* an indexed address that charges the extra cycle when the low byte wraps
\* on the index alone
indexed_low_wrap(P, high, low, index) ==
    LET carry == And8(P.status, 1)
        address == (low + 256 * high) + carry + index
    IN  Resolved(IF low + index > 255 THEN update_cycles(P, 1) ELSE P,
                 address)

\* base + carry + index, and the extra cycle when the high byte grew
indexed(P, high, low, index) ==
    LET carry == And8(P.status, 1)
        address == (low + 256 * high) + carry + index
    IN  Resolved(IF address \div 256 > high THEN update_cycles(P, 1) ELSE P,
                 address)

lookup(P, mode) ==
    CASE mode = "Accumulator" -> Resolved(P, P.a)
      [] mode = "Absolute" ->
            LET Q == update_cycles(P, 2)
            IN  IF ~InRam(P.pc + 2)
                THEN Resolved(Panic(Q, "bounds"), 0)
                ELSE LET high == read(Q.mem, P.pc + 1)
                         low == read(Q.mem, P.pc + 2)
                     IN  Resolved(Q, low + 256 * high)
      [] mode \in {"AbsoluteX", "AbsoluteY"} ->
            LET Q == update_cycles(P, 2)
            IN  IF ~InRam(P.pc + 2)
                THEN Resolved(Panic(Q, "bounds"), 0)
                ELSE indexed(Q, read(Q.mem, P.pc + 1), read(Q.mem, P.pc + 2),
                             IF mode = "AbsoluteX" THEN P.x ELSE P.y)
      [] mode = "Immediate" -> Resolved(P, P.pc + 1)
      [] mode = "Implied" -> Resolved(update_cycles(P, 1), 0)
      [] mode = "Indirect" ->
            LET Q == update_cycles(P, 5)
            IN  IF ~InRam(P.pc + 2)
                THEN Resolved(Panic(Q, "bounds"), 0)
                ELSE LET high == read(Q.mem, P.pc + 1)
                         low == read(Q.mem, P.pc + 2)
                     IN  Resolved(Q, read(Q.mem, low + 256 * high))
      [] mode = "IndexedX" ->
            LET Q == update_cycles(P, 4)
            IN  IF ~InRam(P.pc + 1)
                THEN Resolved(Panic(Q, "bounds"), 0)
                ELSE LET S == add_u8(Q, read(Q.mem, P.pc + 1), P.x)
                         high == read(Q.mem, S.value)
                         low == read(Q.mem, S.value + 1)
                     IN  IF S.P.fault # "none"
                         THEN Resolved(S.P, 0)
                         ELSE Resolved(S.P, low + 256 * high)
      [] mode = "IndexedY" ->
            LET Q == update_cycles(P, 3)
            IN  IF ~InRam(P.pc + 1)
                THEN Resolved(Panic(Q, "bounds"), 0)
                ELSE LET base_index == read(Q.mem, P.pc + 1)
                     IN  indexed(Q, read(Q.mem, base_index),
                                 read(Q.mem, base_index + 1), P.y)
      [] mode = "Relative" ->
            LET Q == update_cycles(P, 1)
            IN  IF ~InRam(P.pc + 1)
                THEN Resolved(Panic(Q, "bounds"), 0)
                ELSE LET byte == read(Q.mem, P.pc + 1)
                         offset == IF byte >= 128 THEN byte - 256 ELSE byte
                         under == offset < 0 /\ P.pc < -offset
                         address == IF under
                                    THEN P.pc + offset + USIZE_WRAP
                                    ELSE P.pc + offset
                         R == IF under THEN Wrapped(Q) ELSE Q
                     IN  IF under /\ P.checks
                         THEN Resolved(Panic(Q, "overflow"), 0)
                         ELSE Resolved(IF address \div 256 > P.pc \div 256
                                       THEN update_cycles(R, 1) ELSE R,
                                       address)
      [] mode = "ZeroPage" ->
            LET Q == update_cycles(P, 1)
            IN  IF ~InRam(P.pc + 1)
                THEN Resolved(Panic(Q, "bounds"), 0)
                ELSE Resolved(Q, read(Q.mem, P.pc + 1))
      [] mode \in {"ZeroPageX", "ZeroPageY"} ->
            LET Q == update_cycles(P, 2)
            IN  IF ~InRam(P.pc + 1)
                THEN Resolved(Panic(Q, "bounds"), 0)
                ELSE LET S == add_u8(Q, read(Q.mem, P.pc + 1),
                                     IF mode = "ZeroPageX" THEN P.x ELSE P.y)
                     IN  IF S.P.fault # "none"
                         THEN Resolved(S.P, 0)
                         ELSE Resolved(S.P, And8(255, S.value))

(***************************************************************************)
(* Decoder (cpu/opcodes.rs).                                               *)
(***************************************************************************)
\* a length table that counts one operand byte for the absolute modes
opcode_len_short(mode) ==
    CASE mode \in {"Absolute", "AbsoluteX", "AbsoluteY", "Indirect",
                   "ZeroPage", "ZeroPageX", "ZeroPageY", "IndexedX",
                   "IndexedY", "Relative", "Immediate"} -> 2
      [] OTHER -> 1

opcode_len(mode) ==
    CASE mode \in {"Absolute", "AbsoluteX", "AbsoluteY", "Indirect"} -> 3
      [] mode \in {"ZeroPage", "ZeroPageX", "ZeroPageY", "IndexedX", "IndexedY",
                   "Relative", "Immediate"} -> 2
      [] OTHER -> 1

\* a decoded (handler, mode) pair
Decoded(op, mode) == [op |-> op, mode |-> mode]

\* decode panicking ("Cannot decode ..."): no pair is returned
CannotDecode == [op |-> "panic", mode |-> "none"]

\* the arm (0, 1, _)
decode_c0_b1(a) ==
    CASE a = 1 -> Decoded("bit", "ZeroPage")
      [] a = 4 -> Decoded("sty", "ZeroPage")
      [] a = 5 -> Decoded("ldy", "ZeroPage")
      [] a = 6 -> Decoded("cpy", "ZeroPage")
      [] a = 7 -> Decoded("cpx", "ZeroPage")
      [] OTHER -> CannotDecode

\* the arm (0, 2, _)
decode_c0_b2(a) ==
    Decoded(<<"php", "plp", "pha", "pla", "dey", "tay", "iny", "inx">>[a + 1],
            "Implied")

\* the arm (0, 3, _)
decode_c0_b3(a) ==
    CASE a = 1 -> Decoded("bit", "Absolute")
      [] a = 2 -> Decoded("jmp", "Absolute")
      [] a = 3 -> Decoded("jmp", "Indirect")
      [] a = 4 -> Decoded("sty", "Absolute")
      [] a = 5 -> Decoded("ldy", "Absolute")
      [] a = 6 -> Decoded("cpy", "Absolute")
      [] a = 7 -> Decoded("cpx", "Absolute")
      [] OTHER -> CannotDecode

\* the arm (0, 4, _): branches
decode_branch(a) ==
    Decoded(<<"bpl", "bmi", "bvc", "bvs", "bcc", "bcs", "bne", "beq">>[a + 1],
            "Relative")

\* the arm (0, 6, _)
decode_c0_b6(a) ==
    Decoded(<<"clc", "sec", "cli", "sei", "tya", "clv", "cld", "sed">>[a + 1],
            "Implied")

\* the arm (1, _, _)
decode_c1(b, a) ==
    Decoded(<<"ora", "and", "eor", "adc", "sta", "lda", "cmp", "sbc">>[a + 1],
            <<"Indirect", "ZeroPage", "Immediate", "Absolute", "Indirect",
              "ZeroPageX", "AbsoluteX", "AbsoluteY">>[b + 1])

\* the arm (2, _, _), reached after the (2, 0, 0..3) and (2, 2, 4..6) arms
decode_c2(b, a) ==
    IF a = 5 /\ b = 0 THEN Decoded("ldx", "Immediate")
    ELSE IF b = 2 /\ a = 7 THEN Decoded("nop", "Implied")
    ELSE IF b = 6
         THEN CASE a = 4 -> Decoded("txs", "Implied")
                [] a = 5 -> Decoded("tsx", "Implied")
                [] OTHER -> CannotDecode
    ELSE LET instruction ==
                 <<"asl", "rol", "lsr", "ror", "stx", "ldx", "dec", "inc">>[a + 1]
         IN  CASE b = 1 -> Decoded(instruction, "ZeroPage")
               [] b = 2 -> Decoded(instruction, "Implied")
               [] b = 3 -> Decoded(instruction, "Absolute")
               [] b = 5 -> Decoded(instruction, "ZeroPageX")
               [] b = 7 -> Decoded(instruction, "AbsoluteX")
               [] OTHER -> CannotDecode

\* the arm (3, _, 6): DCP
decode_dcp(b) ==
    CASE b = 0 -> Decoded("dcp", "IndexedX")
      [] b = 1 -> Decoded("dcp", "ZeroPage")
      [] b = 3 -> Decoded("dcp", "Absolute")
      [] b = 4 -> Decoded("dcp", "IndexedY")
      [] b = 5 -> Decoded("dcp", "ZeroPageX")
      [] b = 6 -> Decoded("dcp", "AbsoluteY")
      [] b = 7 -> Decoded("dcp", "AbsoluteX")
      [] OTHER -> CannotDecode

\* Processor::decode: the match on (c, b, a), first arm first
decode(value) ==
    LET a == And8(value, 224) \div 32
        b == And8(value, 28) \div 4
        c == And8(value, 3)
    IN  CASE c = 0 /\ b = 0 /\ a = 0 -> Decoded("brk", "Implied")
          [] c = 0 /\ b = 0 /\ a = 1 -> Decoded("jsr", "Absolute")
          [] c = 0 /\ b = 0 /\ a = 2 -> Decoded("rti", "Implied")
          [] c = 0 /\ b = 0 /\ a = 3 -> Decoded("rts", "Implied")
          [] c = 0 /\ b = 0 /\ a = 5 -> Decoded("ldy", "Immediate")
          [] c = 0 /\ b = 0 /\ a = 6 -> Decoded("cpy", "Immediate")
          [] c = 0 /\ b = 0 /\ a = 7 -> Decoded("cpx", "Immediate")
          [] c = 0 /\ b = 1 -> decode_c0_b1(a)
          [] c = 0 /\ b = 2 -> decode_c0_b2(a)
          [] c = 0 /\ b = 3 -> decode_c0_b3(a)
          [] c = 0 /\ b = 4 -> decode_branch(a)
          [] c = 0 /\ b = 5 /\ a = 4 -> Decoded("sty", "ZeroPage")
          [] c = 0 /\ b = 5 /\ a = 5 -> Decoded("ldy", "ZeroPage")
          [] c = 0 /\ b = 6 -> decode_c0_b6(a)
          [] c = 1 -> decode_c1(b, a)
          [] c = 2 /\ b = 0 /\ a \in 0..3 -> Decoded("jam", "Implied")
          [] c = 2 /\ b = 2 /\ a = 4 -> Decoded("txa", "Implied")
          [] c = 2 /\ b = 2 /\ a = 5 -> Decoded("tax", "Implied")
          [] c = 2 /\ b = 2 /\ a = 6 -> Decoded("dex", "Implied")
          [] c = 2 /\ ~(b = 0 /\ a \in 0..3) /\ ~(b = 2 /\ a \in 4..6) ->
                decode_c2(b, a)
          [] c = 3 /\ a = 6 -> decode_dcp(b)
          [] OTHER -> Decoded("jam", "Implied")

(***************************************************************************)
(* Instruction handlers (cpu/opcodes.rs).                                  *)
(***************************************************************************)
\* the IRQ/BRK vector the handlers import from cpu::memory
IRQ_BRK_VECTOR == 65534

\* a handler's prologue: address = lookup(mode); operand = mem.read(address)
fetch(P, mode) ==
    LET body(L) ==
            IF L.P.fault # "none"
            THEN [P |-> L.P, address |-> L.address, operand |-> 0]
            ELSE IF ~InRam(L.address)
            THEN [P |-> Panic(L.P, "bounds"), address |-> L.address, operand |-> 0]
            ELSE [P |-> L.P, address |-> L.address,
                  operand |-> read(L.P.mem, L.address)]
    IN  body(lookup(P, mode))

\* an adder whose carry out forgets the carry of the second addition
adc_first_carry(P, mode) ==
    LET body(F) ==
            LET lhs == F.P.a
                s1 == overflowing_add(lhs, F.operand)
                s2 == overflowing_add(s1.r, And8(F.P.status, 1))
                result == s2.r
                P1 == set_n(set_z(F.P, result = 0), And8(result, SIGN_BIT) > 0)
                P2 == update_v(set_carry(P1, s1.c), lhs, F.operand, result)
                P3 == [P2 EXCEPT !.a = result]
            IN  IF F.P.fault # "none" THEN F.P
                ELSE update_cycles(update_pc(P3, opcode_len(mode)), 2)
    IN  body(fetch(P, mode))

adc(P, mode) ==
    LET body(F) ==
            LET lhs == F.P.a
                s1 == overflowing_add(lhs, F.operand)
                s2 == overflowing_add(s1.r, And8(F.P.status, 1))
                result == s2.r
                P1 == set_n(set_z(F.P, result = 0), And8(result, SIGN_BIT) > 0)
                P2 == update_v(set_carry(P1, s1.c \/ s2.c), lhs, F.operand, result)
                P3 == [P2 EXCEPT !.a = result]
            IN  IF F.P.fault # "none" THEN F.P
                ELSE update_cycles(update_pc(P3, opcode_len(mode)), 2)
    IN  body(fetch(P, mode))

\* a subtraction that does not complement its operand
sbc_uncomplemented(P, mode) == adc(P, mode)

sbc(P, mode) ==
    LET body(F) ==
            LET operand == Not8(F.operand)
                lhs == F.P.a
                s1 == overflowing_add(lhs, operand)
                s2 == overflowing_add(s1.r, And8(F.P.status, 1))
                result == s2.r
                P1 == set_n(set_z(F.P, result = 0), And8(result, SIGN_BIT) > 0)
                P2 == update_v(set_carry(P1, s1.c \/ s2.c), lhs, operand, result)
                P3 == [P2 EXCEPT !.a = result]
            IN  IF F.P.fault # "none" THEN F.P
                ELSE update_cycles(update_pc(P3, opcode_len(mode)), 2)
    IN  body(fetch(P, mode))

\* an AND that also updates the carry flag
and_with_carry(P, mode) ==
    LET body(F) ==
            LET accumulator == F.P.a
                result == And8(accumulator, F.operand)
                P1 == [F.P EXCEPT !.a = result]
                P2 == update_pc(P1, opcode_len(mode))
                P3 == update_status(P2, accumulator, F.operand, result,
                                    Or8(Or8(N_FLAG, Z_FLAG), C_FLAG))
            IN  IF F.P.fault # "none" THEN F.P ELSE update_cycles(P3, 2)
    IN  body(fetch(P, mode))

and(P, mode) ==
    LET body(F) ==
            LET accumulator == F.P.a
                result == And8(accumulator, F.operand)
                P1 == [F.P EXCEPT !.a = result]
                P2 == update_pc(P1, opcode_len(mode))
                P3 == update_status(P2, accumulator, F.operand, result,
                                    Or8(N_FLAG, Z_FLAG))
            IN  IF F.P.fault # "none" THEN F.P ELSE update_cycles(P3, 2)
    IN  body(fetch(P, mode))

\* the operand of the shifts and rotates: A in accumulator mode, else the cell
shift_operand(P, mode) ==
    LET body(L) ==
            IF L.P.fault # "none" THEN [P |-> L.P, operand |-> 0]
            ELSE IF mode = "Accumulator" THEN [P |-> L.P, operand |-> L.P.a]
            ELSE IF ~InRam(L.address)
            THEN [P |-> Panic(L.P, "bounds"), operand |-> 0]
            ELSE [P |-> L.P, operand |-> read(L.P.mem, L.address)]
    IN  body(lookup(P, mode))

asl(P, mode) ==
    LET body(F) ==
            LET result == (F.operand * 2) % 256
                P1 == [F.P EXCEPT !.a = result]
                P2 == update_status(P1, F.operand, 1, result,
                                    Or8(Or8(Z_FLAG, C_FLAG), N_FLAG))
            IN  IF F.P.fault # "none" THEN F.P
                ELSE IF mode # "Accumulator" THEN Panic(F.P, "unimplemented")
                ELSE update_cycles(update_pc(P2, opcode_len(mode)), 2)
    IN  body(shift_operand(P, mode))

\* the eight branches: taken resolves and jumps, untaken steps over
\* a branch that resolves its target before it tests the flag
branch_resolved_first(P, mode, taken) ==
    LET body(L) ==
            IF L.P.fault # "none" THEN L.P
            ELSE IF taken THEN update_cycles(jump(L.P, L.address), 2)
            ELSE update_cycles(update_pc(L.P, opcode_len(mode)), 2)
    IN  body(lookup(P, mode))

branch(P, mode, taken) ==
    LET body(L) ==
            IF taken
            THEN IF L.P.fault # "none" THEN L.P
                 ELSE update_cycles(jump(L.P, L.address), 2)
            ELSE update_cycles(update_pc(P, opcode_len(mode)), 2)
    IN  body(lookup(P, mode))

bcc(P, mode) == branch(P, mode, And8(P.status, C_FLAG) = 0)

\* a BCS that branches on carry clear
bcs_on_clear(P, mode) == branch(P, mode, And8(P.status, C_FLAG) = 0)

bcs(P, mode) == branch(P, mode, And8(P.status, C_FLAG) # 0)

beq(P, mode) == branch(P, mode, And8(P.status, Z_FLAG) # 0)

bmi(P, mode) == branch(P, mode, And8(P.status, N_FLAG) # 0)

bne(P, mode) == branch(P, mode, And8(P.status, Z_FLAG) = 0)

bpl(P, mode) == branch(P, mode, And8(P.status, N_FLAG) = 0)

bvc(P, mode) == branch(P, mode, And8(P.status, V_FLAG) = 0)

\* a BVS that tests the sign flag
bvs_on_negative(P, mode) == branch(P, mode, And8(P.status, N_FLAG) = N_FLAG)

bvs(P, mode) == branch(P, mode, And8(P.status, V_FLAG) = V_FLAG)

\* a BIT that takes N and V from the AND result
bit_of_result(P, mode) ==
    LET body(F) ==
            LET accumulator == F.P.a
                result == And8(F.operand, accumulator)
                new_flags == And8(result, Or8(N_FLAG, V_FLAG))
                P1 == [F.P EXCEPT !.status =
                          Or8(And8(F.P.status, Not8(Or8(N_FLAG, V_FLAG))), new_flags)]
                P2 == update_status(P1, accumulator, F.operand, result, Z_FLAG)
            IN  IF F.P.fault # "none" THEN F.P ELSE update_pc(P2, opcode_len(mode))
    IN  body(fetch(P, mode))

bit(P, mode) ==
    LET body(F) ==
            LET accumulator == F.P.a
                result == And8(F.operand, accumulator)
                new_flags == And8(F.operand, Or8(N_FLAG, V_FLAG))
                P1 == [F.P EXCEPT !.status =
                          Or8(And8(F.P.status, Not8(Or8(N_FLAG, V_FLAG))), new_flags)]
                P2 == update_status(P1, accumulator, F.operand, result, Z_FLAG)
            IN  IF F.P.fault # "none" THEN F.P ELSE update_pc(P2, opcode_len(mode))
    IN  body(fetch(P, mode))

\* a BRK that pushes the status after setting the I flag
brk_masked_first(P, mode) ==
    LET pch == (P.pc \div 256) % 256
        pcl == P.pc % 256
        P1 == stack_push(P, pcl)
        P2 == stack_push(P1, pch)
        P3 == [P2 EXCEPT !.status = Or8(P2.status, I_FLAG)]
        P4 == stack_push(P3, Or8(Or8(P3.status, F_FLAG), B_FLAG))
    IN  jump(update_cycles(P4, 7), IRQ_BRK_VECTOR)

brk(P, mode) ==
    LET pch == (P.pc \div 256) % 256
        pcl == P.pc % 256
        P1 == stack_push(P, pcl)
        P2 == stack_push(P1, pch)
        P3 == stack_push(P2, Or8(Or8(P2.status, F_FLAG), B_FLAG))
        P4 == [P3 EXCEPT !.status = Or8(P3.status, I_FLAG)]
    IN  jump(update_cycles(P4, 7), IRQ_BRK_VECTOR)

\* status &= !flag (clc, cld, cli, clv) or status |= flag (sec, sed, sei)
flag_op(P, mode, flag, toggle) ==
    update_cycles(
        update_pc([P EXCEPT !.status = set_flag(P.status, flag, toggle)],
                  opcode_len(mode)), 2)

clc(P, mode) == flag_op(P, mode, C_FLAG, FALSE)

cld(P, mode) == flag_op(P, mode, D_FLAG, FALSE)

cli(P, mode) == flag_op(P, mode, I_FLAG, FALSE)

clv(P, mode) == flag_op(P, mode, V_FLAG, FALSE)

sec(P, mode) == flag_op(P, mode, C_FLAG, TRUE)

sed(P, mode) == flag_op(P, mode, D_FLAG, TRUE)

sei(P, mode) == flag_op(P, mode, I_FLAG, TRUE)

\* cmp, cpx, cpy: compare the register reg with the operand
compare(P, mode, reg) ==
    LET body(F) ==
            LET result == wrapping_sub(reg, F.operand)
                P1 == set_carry(F.P, reg >= F.operand)
                P2 == set_z(P1, F.operand = reg)
                P3 == set_n(P2, And8(result, SIGN_BIT) > 0)
            IN  IF F.P.fault # "none" THEN F.P
                ELSE update_cycles(update_pc(P3, opcode_len(mode)), 2)
    IN  body(fetch(P, mode))

cmp(P, mode) == compare(P, mode, P.a)

cpx(P, mode) == compare(P, mode, P.x)

cpy(P, mode) == compare(P, mode, P.y)

dcp(P, mode) ==
    LET body(F) ==
            LET P1 == [F.P EXCEPT !.mem =
                          write(F.P.mem, F.address, wrapping_sub(F.operand, 1))]
                result == wrapping_sub(P1.a, wrapping_sub(F.operand, 1))
                P2 == update_status(P1, F.operand, P1.a, result,
                                    Or8(Or8(N_FLAG, Z_FLAG), C_FLAG))
            IN  IF F.P.fault # "none" THEN F.P
                ELSE update_cycles(update_pc(P2, opcode_len(mode)), 4)
    IN  body(fetch(P, mode))

\* dec and inc: operand + delta in u8, written back
step_memory(P, mode, delta) ==
    LET body(F) ==
            LET sum == F.operand + delta
                result == (sum + 256) % 256
                over == sum < 0 \/ sum > 255
                P0 == IF over THEN Wrapped(F.P) ELSE F.P
                P1 == [P0 EXCEPT !.mem = write(P0.mem, F.address, result)]
                P2 == update_z_flag(update_n_flag(P1, result), result)
            IN  IF F.P.fault # "none" THEN F.P
                ELSE IF over /\ F.P.checks
                THEN Panic(F.P, "overflow")
                ELSE update_cycles(update_pc(P2, opcode_len(mode)), 2)
    IN  body(fetch(P, mode))

dec(P, mode) == step_memory(P, mode, -1)

inc(P, mode) == step_memory(P, mode, 1)

dey(P, mode) ==
    LET result == wrapping_sub(P.y, 1)
        P1 == update_n_flag(update_z_flag(P, result), result)
    IN  update_cycles(update_pc([P1 EXCEPT !.y = result], opcode_len(mode)), 2)

dex(P, mode) ==
    LET result == wrapping_sub(P.x, 1)
        P1 == update_n_flag(update_z_flag(P, result), result)
    IN  update_cycles(update_pc([P1 EXCEPT !.x = result], opcode_len(mode)), 2)

eor(P, mode) ==
    LET body(F) ==
            LET result == Xor8(F.P.a, F.operand)
                P1 == update_n_flag(update_z_flag(F.P, result), result)
            IN  IF F.P.fault # "none" THEN F.P
                ELSE update_cycles(
                         update_pc([P1 EXCEPT !.a = result], opcode_len(mode)), 2)
    IN  body(fetch(P, mode))

inx(P, mode) ==
    LET result == wrapping_add(P.x, 1)
        P1 == [P EXCEPT !.x = result]
    IN  update_cycles(
            update_pc(update_n_flag(update_z_flag(P1, result), result), 1), 2)

iny(P, mode) ==
    LET result == wrapping_add(P.y, 1)
        P1 == [P EXCEPT !.y = result]
    IN  update_cycles(
            update_pc(update_n_flag(update_z_flag(P1, result), result), 1), 2)

\* a JAM that steps over itself as NOP does
jam_as_nop(P, mode) == update_cycles(update_pc(P, opcode_len(mode)), 1)

\* jam: prints two cells and panics
jam(P, mode) == Panic(P, "jam")

jmp(P, mode) ==
    LET body(L) ==
            IF L.P.fault # "none" THEN L.P ELSE jump(L.P, L.address)
    IN  body(lookup(P, mode))

jsr(P, mode) ==
    LET body(L) ==
            LET new_pc == L.P.pc + 2
                pch == new_pc \div 256
                pcl == new_pc % 256
                P1 == stack_push(L.P, pcl)
                P2 == stack_push(P1, pch % 256)
            IN  IF L.P.fault # "none" THEN L.P
                ELSE update_cycles(jump(P2, L.address), 4)
    IN  body(lookup(P, mode))

lda(P, mode) ==
    LET body(F) ==
            LET P1 == update_pc([F.P EXCEPT !.a = F.operand], opcode_len(mode))
                P2 == update_z_flag(update_n_flag(P1, F.operand), F.operand)
            IN  IF F.P.fault # "none" THEN F.P ELSE update_cycles(P2, 2)
    IN  body(fetch(P, mode))

ldx(P, mode) ==
    LET body(F) ==
            LET P1 == [F.P EXCEPT !.x = F.operand]
                P2 == update_z_flag(update_n_flag(P1, F.operand), F.operand)
            IN  IF F.P.fault # "none" THEN F.P
                ELSE update_cycles(update_pc(P2, opcode_len(mode)), 2)
    IN  body(fetch(P, mode))

ldy(P, mode) ==
    LET body(F) ==
            LET P1 == [F.P EXCEPT !.y = F.operand]
                P2 == update_cycles(update_pc(P1, opcode_len(mode)), 2)
            IN  IF F.P.fault # "none" THEN F.P
                ELSE update_status(P2, F.operand, F.operand, F.operand,
                                   Or8(N_FLAG, Z_FLAG))
    IN  body(fetch(P, mode))

\* lsr, rol, ror: flags from the shifted value, which is stored nowhere
shift_flags(P, mode, F, result) ==
    IF F.P.fault # "none" THEN F.P
    ELSE update_cycles(
             update_pc(update_status(F.P, F.operand, F.operand, result,
                                     Or8(Or8(N_FLAG, C_FLAG), Z_FLAG)),
                       opcode_len(mode)), 2)

lsr(P, mode) ==
    LET body(F) ==
            shift_flags(P, mode, F, F.operand \div 2)
    IN  body(shift_operand(P, mode))

rol(P, mode) ==
    LET body(F) ==
            shift_flags(P, mode, F, ((F.operand * 2) % 256) + (F.operand \div 128))
    IN  body(shift_operand(P, mode))

ror(P, mode) ==
    LET body(F) ==
            shift_flags(P, mode, F, (F.operand \div 2) + (128 * (F.operand % 2)))
    IN  body(shift_operand(P, mode))

ora(P, mode) ==
    LET body(F) ==
            LET result == Or8(F.P.a, F.operand)
                P1 == update_z_flag(update_n_flag(F.P, result), result)
            IN  IF F.P.fault # "none" THEN F.P
                ELSE update_cycles(
                         update_pc([P1 EXCEPT !.a = result], opcode_len(mode)), 2)
    IN  body(fetch(P, mode))

pha(P, mode) ==
    update_cycles(update_pc(stack_push(P, P.a), opcode_len(mode)), 2)

\* a PHP that pushes the status byte as it is
php_unforced(P, mode) ==
    update_cycles(update_pc(stack_push(P, P.status), opcode_len(mode)), 2)

php(P, mode) ==
    update_cycles(
        update_pc(stack_push(P, Or8(Or8(P.status, B_FLAG), F_FLAG)),
                  opcode_len(mode)), 2)

pla(P, mode) ==
    LET body(S) ==
            LET P1 == update_z_flag(update_n_flag(S.P, S.value), S.value)
            IN  update_cycles(
                    update_pc([P1 EXCEPT !.a = S.value], opcode_len(mode)), 3)
    IN  body(stack_pop(P))

\* a PLP that restores the popped byte as it is
plp_unmasked(P, mode) ==
    LET body(S) ==
            LET P1 == [S.P EXCEPT !.status = S.value]
            IN  update_cycles(update_pc(P1, opcode_len(mode)), 3)
    IN  body(stack_pop(P))

plp(P, mode) ==
    LET body(S) ==
            LET P1 == [S.P EXCEPT !.status = Or8(And8(S.value, Not8(B_FLAG)), F_FLAG)]
            IN  update_cycles(update_pc(P1, opcode_len(mode)), 3)
    IN  body(stack_pop(P))

rti(P, mode) ==
    LET body(S1) ==
            LET status == And8(S1.value, Or8(Not8(F_FLAG), Not8(B_FLAG)))
                S2 == stack_pop(S1.P)
                S3 == stack_pop(S2.P)
                new_pc == S3.value + 256 * S2.value
            IN  update_cycles(jump([S3.P EXCEPT !.status = status], new_pc), 6)
    IN  body(stack_pop(P))

\* an RTS that does not step past the return address
rts_unstepped(P, mode) ==
    LET body(S1) ==
            LET S2 == stack_pop(S1.P)
                new_pc == S2.value + 256 * S1.value
            IN  update_cycles(jump(S2.P, new_pc), 6)
    IN  body(stack_pop(P))

rts(P, mode) ==
    LET body(S1) ==
            LET S2 == stack_pop(S1.P)
                new_pc == S2.value + 256 * S1.value
            IN  update_pc(update_cycles(jump(S2.P, new_pc), 6), 1)
    IN  body(stack_pop(P))

\* sta, stx, sty: write the register reg at the resolved address
store(P, mode, reg) ==
    LET body(L) ==
            LET P1 == [L.P EXCEPT !.mem = write(L.P.mem, L.address, reg)]
            IN  IF L.P.fault # "none" THEN L.P
                ELSE IF ~InRam(L.address) THEN Panic(L.P, "bounds")
                ELSE update_cycles(update_pc(P1, opcode_len(mode)), 2)
    IN  body(lookup(P, mode))

sta(P, mode) == store(P, mode, P.a)

stx(P, mode) == store(P, mode, P.x)

sty(P, mode) == store(P, mode, P.y)

tay(P, mode) ==
    LET P1 == [P EXCEPT !.y = P.a]
        P2 == update_status(P1, P1.y, P1.y, P1.y, Or8(N_FLAG, Z_FLAG))
    IN  update_cycles(update_pc(P2, opcode_len(mode)), 2)

\* tax, txa, tsx: copy value into a register and set N and Z from it
transfer(P, mode, value, reg) ==
    LET P1 == update_z_flag(update_n_flag(P, value), value)
        P2 == CASE reg = "x" -> [P1 EXCEPT !.x = value]
                [] reg = "a" -> [P1 EXCEPT !.a = value]
    IN  update_cycles(update_pc(P2, opcode_len(mode)), 2)

tax(P, mode) == transfer(P, mode, P.a, "x")

txa(P, mode) == transfer(P, mode, P.x, "a")

tsx(P, mode) == transfer(P, mode, P.sp, "x")

txs(P, mode) ==
    update_cycles(update_pc([P EXCEPT !.sp = P.x], opcode_len(mode)), 2)

tya(P, mode) ==
    LET P1 == update_pc([P EXCEPT !.a = P.y], opcode_len(mode))
    IN  update_cycles(update_z_flag(update_n_flag(P1, P.y), P.y), 2)

nop(P, mode) == update_cycles(update_pc(P, opcode_len(mode)), 1)

\* opcode(self, mode): the call through the decoded handler
dispatch(P, op, mode) ==
    CASE op = "adc" -> adc(P, mode) [] op = "and" -> and(P, mode)
      [] op = "asl" -> asl(P, mode) [] op = "bcc" -> bcc(P, mode)
      [] op = "bcs" -> bcs(P, mode) [] op = "beq" -> beq(P, mode)
      [] op = "bit" -> bit(P, mode) [] op = "bmi" -> bmi(P, mode)
      [] op = "bne" -> bne(P, mode) [] op = "bpl" -> bpl(P, mode)
      [] op = "brk" -> brk(P, mode) [] op = "bvc" -> bvc(P, mode)
      [] op = "bvs" -> bvs(P, mode) [] op = "clc" -> clc(P, mode)
      [] op = "cld" -> cld(P, mode) [] op = "cli" -> cli(P, mode)
      [] op = "clv" -> clv(P, mode) [] op = "cmp" -> cmp(P, mode)
      [] op = "cpx" -> cpx(P, mode) [] op = "cpy" -> cpy(P, mode)
      [] op = "dcp" -> dcp(P, mode) [] op = "dec" -> dec(P, mode)
      [] op = "dey" -> dey(P, mode) [] op = "dex" -> dex(P, mode)
      [] op = "eor" -> eor(P, mode) [] op = "inc" -> inc(P, mode)
      [] op = "inx" -> inx(P, mode) [] op = "iny" -> iny(P, mode)
      [] op = "jam" -> jam(P, mode) [] op = "jmp" -> jmp(P, mode)
      [] op = "jsr" -> jsr(P, mode) [] op = "lda" -> lda(P, mode)
      [] op = "ldx" -> ldx(P, mode) [] op = "ldy" -> ldy(P, mode)
      [] op = "lsr" -> lsr(P, mode) [] op = "ora" -> ora(P, mode)
      [] op = "pha" -> pha(P, mode) [] op = "php" -> php(P, mode)
      [] op = "pla" -> pla(P, mode) [] op = "plp" -> plp(P, mode)
      [] op = "rol" -> rol(P, mode) [] op = "ror" -> ror(P, mode)
      [] op = "rti" -> rti(P, mode) [] op = "rts" -> rts(P, mode)
      [] op = "sbc" -> sbc(P, mode) [] op = "sec" -> sec(P, mode)
      [] op = "sed" -> sed(P, mode) [] op = "sei" -> sei(P, mode)
      [] op = "sta" -> sta(P, mode) [] op = "stx" -> stx(P, mode)
      [] op = "sty" -> sty(P, mode) [] op = "tay" -> tay(P, mode)
      [] op = "tax" -> tax(P, mode) [] op = "txa" -> txa(P, mode)
      [] op = "tsx" -> tsx(P, mode) [] op = "txs" -> txs(P, mode)
      [] op = "tya" -> tya(P, mode) [] op = "nop" -> nop(P, mode)

(***************************************************************************)
(* The single step and the reset (cpu/mod.rs).                             *)
(***************************************************************************)
\* Processor::exec: fetch the byte at PC, decode it, run the handler
exec(P) ==
    IF ~InRam(P.pc) THEN Panic(P, "bounds")
    ELSE LET d == decode(read(P.mem, P.pc))
         IN  IF d.op = "panic" THEN Panic(P, "decode")
             ELSE dispatch(P, d.op, d.mode)

\* a reset that reads the vector high byte first: the variant the byte
\* order of the reset vector tells apart
reset_big_endian(P) ==
    LET lower == read(P.mem, RESET_VECTOR)
        upper == read(P.mem, RESET_VECTOR + 1)
    IN  [P EXCEPT !.pc = upper + 256 * lower]

\* Processor::reset: PC from the reset vector, low byte first
reset(P) ==
    LET lower == read(P.mem, RESET_VECTOR)
        upper == read(P.mem, RESET_VECTOR + 1)
    IN  [P EXCEPT !.pc = lower + 256 * upper]

(***************************************************************************)
(* The state machine.                                                      *)
(***************************************************************************)
\* bounds on the number of operations in a run
MaxSteps == 7
MaxAluSteps == 2

\* the processor the variables hold, in a build that wraps on overflow
Proc ==
    [mem |-> mem, a |-> state.a, sp |-> state.sp, pc |-> state.pc,
     x |-> state.x, y |-> state.y, status |-> state.status,
     cycles |-> cycles, fault |-> fault, checks |-> FALSE, wrapped |-> FALSE]

\* the builds the run so far can belong to: TRUE panics on overflow
Builds == IF checks = "off" THEN {FALSE} ELSE BOOLEAN

\* the variables become the processor P
Becomes(P) ==
    /\ mem' = P.mem
    /\ state' = [a |-> P.a, sp |-> P.sp, pc |-> P.pc, x |-> P.x, y |-> P.y,
                 status |-> P.status]
    /\ cycles' = P.cycles
    /\ fault' = P.fault
    /\ checks' = IF P.wrapped THEN "off" ELSE checks

\* one entry of the trace
Op(kind, op, mode, arg, retv) ==
    [kind |-> kind, op |-> op, mode |-> mode, arg |-> arg, ret |-> retv,
     pre |-> Proc]

Logged(entry) == trace' = Append(trace, entry)

\* Processor::new(None), in either build
Init ==
    /\ checks = "either"
    /\ mem = NewMemory
    /\ state = [a |-> 0, sp |-> 0, pc |-> 0, x |-> 0, y |-> 0, status |-> 0]
    /\ cycles = 0
    /\ fault = "none"
    /\ trace = <<>>

\* one call of Processor::exec
ExecStep(bound) ==
    /\ fault = "none"
    /\ Len(trace) < bound
    /\ \E chk \in Builds : Becomes(exec([Proc EXCEPT !.checks = chk]))
    /\ LET d == IF InRam(state.pc) THEN decode(read(mem, state.pc))
                ELSE CannotDecode
       IN  Logged(Op("exec", d.op, d.mode,
                     IF InRam(state.pc) THEN read(mem, state.pc) ELSE 0, 0))

(***************************************************************************)
(* One ALU instruction on chosen registers: the harness of test_adc and    *)
(* test_and, which builds the state, places the instruction and runs it.   *)
(***************************************************************************)
Bytes == 0..255

\* where the harness places the instruction
AluStarts == {ROM_START}

\* the harness: an immediate instruction at s with operand M, registers set
SetupAlu(opcodes, statuses) ==
    /\ fault = "none"
    /\ trace = <<>>
    /\ \E opcode \in opcodes, s \in AluStarts, A \in Bytes, M \in Bytes,
          st \in statuses :
          /\ Becomes([Proc EXCEPT !.mem = load(mem, s, <<opcode, M>>),
                                  !.pc = s, !.a = A, !.status = st])
          /\ Logged(Op("setup", "alu", "", opcode, M))

ExecAlu == ExecStep(MaxAluSteps)

\* ADC #M with carry clear and carry set, the flags it writes clear or stale
SetupAdc == SetupAlu({105}, {0, 1, 194, 195})

NextAdc == SetupAdc \/ ExecAlu

SpecAdc == Init /\ [][NextAdc]_vars

\* SBC #M with carry clear and carry set, the flags it writes clear or stale
SetupSbc == SetupAlu({233}, {0, 1, 194, 195})

NextSbc == SetupSbc \/ ExecAlu

SpecSbc == Init /\ [][NextSbc]_vars

\* AND #M from two complementary status bytes (V D I C set; N B Z and bit 5 set)
SetupAnd == SetupAlu({41}, {77, 178})

NextAnd == SetupAnd \/ ExecAlu

SpecAnd == Init /\ [][NextAnd]_vars

\* the harness for an instruction with a memory operand: BIT $10 or DCP $10
\* at ROM_START, the cell 0x10 holding M, the accumulator A, and every flag
\* clear or every flag set
SetupCell ==
    /\ fault = "none"
    /\ trace = <<>>
    /\ \E opcode \in {36, 199}, A \in Bytes, M \in Bytes, st \in {0, 255} :
          /\ Becomes([Proc EXCEPT
                         !.mem = write(load(mem, ROM_START, <<opcode, 16>>),
                                       16, M),
                         !.pc = ROM_START, !.a = A, !.status = st])
          /\ Logged(Op("setup", "cell", "", opcode, M))

NextCell == SetupCell \/ ExecAlu

SpecCell == Init /\ [][NextCell]_vars

(***************************************************************************)
(* Memory alone: writes, loads and reads on a new Memory.                  *)
(***************************************************************************)
MaxMemOps == 2

\* the addresses tried: both ends of the RAM window, of its mirrors and of
\* the array, and one past the array
MemAddrs == {0, 2047, 2048, 8191, 8192, 65535, 65536}

MemBytes == {0, 24}

MemImages == {<<7, 9>>}

MemWrite ==
    /\ fault = "none"
    /\ Len(trace) < MaxMemOps
    /\ \E address \in MemAddrs, value \in MemBytes :
          /\ Becomes(IF InRam(address)
                     THEN [Proc EXCEPT !.mem = write(mem, address, value)]
                     ELSE Panic(Proc, "bounds"))
          /\ Logged(Op("write", "", "", address, value))

MemLoad ==
    /\ fault = "none"
    /\ Len(trace) < MaxMemOps
    /\ \E address \in MemAddrs, data \in MemImages :
          /\ Becomes(IF address + Len(data) <= MEMORY_MAX
                     THEN [Proc EXCEPT !.mem = load(mem, address, data)]
                     ELSE Panic(Proc, "bounds"))
          /\ Logged(Op("load", "", "", address, Len(data)))

MemRead ==
    /\ fault = "none"
    /\ Len(trace) < MaxMemOps
    /\ \E address \in MemAddrs :
          /\ Becomes(IF InRam(address) THEN Proc ELSE Panic(Proc, "bounds"))
          /\ Logged(Op("read", "", "", address,
                       IF InRam(address) THEN read(mem, address) ELSE 0))

NextMemory == MemWrite \/ MemLoad \/ MemRead

SpecMemory == Init /\ [][NextMemory]_vars

(***************************************************************************)
(* The decoder alone.                                                      *)
(***************************************************************************)
MaxDecodes == 2

\* the assembler's opcode and addressing-mode constants (cpu/opcodes.rs)
ADC == 105
LDA == 169
MODE_IML == 0
MODE_ZPG == 4
MODE_IMM == 8
MODE_ABS == 12
MODE_INX == 0
MODE_INY == 16
MODE_ZPX == 20
MODE_ABY == 24
MODE_ABX == 28

\* apply_address_mode: the mode bits merged into the opcode byte
apply_address_mode(opcode, mode) ==
    IF mode = MODE_IML
    THEN opcode
    ELSE Or8(And8(opcode, 227), mode)

\* encode's opcode byte for an instruction and a mode, given to the decoder
Assemble ==
    /\ fault = "none"
    /\ Len(trace) < MaxDecodes
    /\ \E opcode \in {ADC, LDA},
          mode \in {MODE_IML, MODE_ZPG, MODE_IMM, MODE_ABS, MODE_INX,
                    MODE_INY, MODE_ZPX, MODE_ABY, MODE_ABX} :
          LET value == apply_address_mode(opcode, mode)
              d == decode(value)
          IN  /\ Becomes(IF d.op = "panic" THEN Panic(Proc, "decode") ELSE Proc)
              /\ Logged(Op("assemble", d.op, d.mode, <<opcode, mode>>, value))

Decode ==
    /\ fault = "none"
    /\ Len(trace) < MaxDecodes
    /\ \E value \in Bytes :
          LET d == decode(value)
          IN  /\ Becomes(IF d.op = "panic" THEN Panic(Proc, "decode") ELSE Proc)
              /\ Logged(Op("decode", d.op, d.mode, value, 0))

NextDecode == Decode \/ Assemble

SpecDecode == Init /\ [][NextDecode]_vars

(***************************************************************************)
(* update_status alone: the harness of test_status_flags, which takes a    *)
(* row (m, n, result) and a flag mask and calls update_status with it on   *)
(* the status the processor has.                                           *)
(***************************************************************************)
MaxStatusCalls == 1

\* the row and the mask chosen, and the status register set: the operands of
\* the test's table among others, every subset of N V Z C as the mask, the
\* whole byte and the four other bits
SetupStatus ==
    /\ fault = "none"
    /\ trace = <<>>
    /\ \E m \in {0, 1, 16, 80, 127, 128, 144, 208, 255},
          n \in {0, 1, 16, 80, 127, 128, 144, 208, 255},
          result \in {0, 1, 32, 96, 127, 128, 160, 174, 224, 255},
          c \in {0, C_FLAG}, z \in {0, Z_FLAG}, v \in {0, V_FLAG},
          neg \in {0, N_FLAG}, other \in {0, F_FLAG + B_FLAG + D_FLAG + I_FLAG},
          st \in {0, 85, 170, 255} :
          /\ Becomes([Proc EXCEPT !.status = st])
          /\ Logged(Op("setup", "status", "",
                       <<m, n, result, c + z + v + neg + other>>, st))

\* one call of update_status with the row and the mask chosen
UpdateStatus ==
    /\ fault = "none"
    /\ 0 < Len(trace)
    /\ Len(trace) <= MaxStatusCalls
    /\ LET row == trace[1].arg
       IN  /\ Becomes(update_status(Proc, row[1], row[2], row[3], row[4]))
           /\ Logged(Op("call", "update_status", "", row, 0))

\* one call of update_v, the overflow flag of ADC and SBC, with the row
UpdateV ==
    /\ fault = "none"
    /\ 0 < Len(trace)
    /\ Len(trace) <= MaxStatusCalls
    /\ LET row == trace[1].arg
       IN  /\ Becomes(update_v(Proc, row[1], row[2], row[3]))
           /\ Logged(Op("call", "update_v", "", row, 0))

NextStatus == SetupStatus \/ UpdateStatus \/ UpdateV

SpecStatus == Init /\ [][NextStatus]_vars

(***************************************************************************)
(* The stack alone: pushes and pops from every stack pointer.              *)
(***************************************************************************)
MaxStackOps == 3

StackBytes == {0, 1, 128, 255}

\* the stack pointer set, as TXS or a write of the public field sets it
SetSp ==
    /\ fault = "none"
    /\ trace = <<>>
    /\ \E s \in Bytes :
          /\ Becomes([Proc EXCEPT !.sp = s])
          /\ Logged(Op("setup", "sp", "", s, 0))

Push ==
    /\ fault = "none"
    /\ Len(trace) < MaxStackOps
    /\ \E value \in StackBytes :
          /\ Becomes(stack_push(Proc, value))
          /\ Logged(Op("push", "", "", value, 0))

Pop ==
    /\ fault = "none"
    /\ Len(trace) < MaxStackOps
    /\ LET S == stack_pop(Proc)
       IN  /\ Becomes(S.P)
           /\ Logged(Op("pop", "", "", 0, S.value))

NextStack == SetSp \/ Push \/ Pop

SpecStack == Init /\ [][NextStack]_vars

(***************************************************************************)
(* The processor running programs: a harness places a program and sets    *)
(* the public registers (the tests of cpu.rs), or Nes::reset loads a ROM   *)
(* and starts at the reset vector; Processor::exec then runs step by step. *)
(***************************************************************************)
\* 16K, the size of one PRG-ROM unit (nes/mod.rs)
PRG_ROM_UNIT_SIZE == 16384

\* SEC; BCS +3; NOP; CLC; BCC -5
BranchLoop == <<56, 176, 3, 234, 24, 144, 251>>

\* start addresses of the branch loop: the ends of RAM, of the mirror
\* windows, of a page, of the ROM and of the array
BranchStarts == {0, 252, 2041, 2042, 2048, 8191, 8192, 32768, 65529, 65530}

\* JSR $9000, the operand in the byte order Mode::Absolute reads it
JsrCall == <<32, 144, 0>>

JsrTarget == 144 * 256

\* where the JSR is placed
Callers == {512, 32768, 33021, 65533, 65534}

StackStarts == {0, 1, 128, 255}

\* subroutine bodies: RTS; PHA PLA RTS; PHA RTS; INX RTS; PLA LDA #7 PHA RTS
Bodies == {<<96>>, <<72, 104, 96>>, <<72, 96>>, <<232, 96>>,
           <<104, 169, 7, 72, 96>>}

Image(at, data) == [at |-> at, data |-> data]

Regs(a, x, y, sp, status) ==
    [a |-> a, x |-> x, y |-> y, sp |-> sp, status |-> status]

Program(name, loads, pc, regs) ==
    [name |-> name, loads |-> loads, pc |-> pc, regs |-> regs]

BranchPrograms ==
    {Program("branch", <<Image(s, BranchLoop)>>, s, Regs(0, 0, 0, 255, 0)) :
        s \in BranchStarts}

JsrPrograms ==
    {Program("jsr", <<Image(p, JsrCall), Image(JsrTarget, body)>>, p,
             Regs(0, 0, 0, s, 0)) :
        p \in Callers, s \in StackStarts, body \in Bodies}

\* programs at the edges of the address space and of the 8-bit index sums:
\* NOP at 0xFFFF; LDA $FFFF,X and LDA $FFFF,Y with index 0x10 and carry set;
\* LDA ($10) with the pointer cell at 0x10; LDA $FF,X with X = 2;
\* BCC -5 at 0 and at 3; BCC +127 at 0xFFFE; DEC $10 and INC $10 at the
\* ends of a byte; JAM alone and after LDA #5; JMP ($1010) with the pointer
\* cells, read through the RAM mirror, holding 0x34, 0x90
EdgePrograms ==
    { Program("nop", <<Image(65535, <<234>>)>>, 65535,
              Regs(0, 0, 0, 255, 0)),
      Program("absx", <<Image(ROM_START, <<185, 255, 255>>)>>, ROM_START,
              Regs(0, 16, 0, 255, 1)),
      Program("absy", <<Image(ROM_START, <<189, 255, 255>>)>>, ROM_START,
              Regs(0, 0, 16, 255, 0)),
      Program("ind", <<Image(ROM_START, <<177, 16>>),
                        Image(16, <<255, 255>>)>>, ROM_START,
              Regs(0, 0, 16, 255, 0)),
      Program("zpx", <<Image(ROM_START, <<181, 255>>)>>, ROM_START,
              Regs(0, 2, 0, 255, 0)),
      Program("back", <<Image(0, <<144, 251>>)>>, 0,
              Regs(0, 0, 0, 255, 0)),
      Program("back", <<Image(3, <<144, 251>>)>>, 3,
              Regs(0, 0, 0, 255, 0)),
      Program("ahead", <<Image(65534, <<144, 127>>)>>, 65534,
              Regs(0, 0, 0, 255, 0)),
      Program("dec", <<Image(ROM_START, <<198, 16>>)>>, ROM_START,
              Regs(0, 0, 0, 255, 0)),
      Program("inc", <<Image(ROM_START, <<230, 16>>),
                       Image(16, <<255>>)>>, ROM_START,
              Regs(0, 0, 0, 255, 0)),
      Program("jam", <<Image(ROM_START, <<2>>)>>, ROM_START,
              Regs(7, 8, 9, 255, 195)),
      Program("jam", <<Image(512, <<169, 5, 2>>)>>, 512,
              Regs(0, 0, 0, 128, 0)),
      Program("jmpi", <<Image(ROM_START, <<108, 16, 16>>),
                        Image(16, <<52, 144>>)>>, ROM_START,
              Regs(0, 0, 0, 255, 0)) }

\* one branch instruction alone: each of the eight branches, with every
\* flag clear, with N, V, Z and C set and with each of the four set alone, in
\* the middle and near the ends of a page and at the bottom of memory, with
\* short and extreme displacements in both directions
BranchCases ==
    {Program("br", <<Image(p, <<opcode, disp>>)>>, p,
             Regs(7, 8, 9, 128, status)) :
        opcode \in {16, 48, 80, 112, 144, 176, 208, 240},
        p \in {3, ROM_START + 3, ROM_START + 128, ROM_START + 240},
        disp \in {5, 127, 128, 251},
        status \in {0, N_FLAG + V_FLAG + Z_FLAG + C_FLAG,
                    N_FLAG, V_FLAG, Z_FLAG, C_FLAG}}

\* the trap and status instructions. BRK in RAM and at the end of a ROM
\* page, with RTI at 0xFFFE or with the cells 0xFFFE, 0xFFFF holding 0x9000;
\* RTI with a status byte and the return bytes 0x90, 0x05 placed in the
\* three stack cells it pops; PHP followed by PLP; PLP alone with each byte
\* value placed in the stack cell it pops
TrapCases ==
    {Program("brk", <<Image(p, <<0>>), Image(IRQ_BRK_VECTOR, vec)>>, p,
             Regs(7, 8, 9, s, status)) :
        p \in {2 * ZERO_PAGE_TOP + 1, ROM_START + 255},
        vec \in {<<64>>, <<0, 144>>},
        s \in StackStarts,
        status \in {0, I_FLAG, N_FLAG + V_FLAG + Z_FLAG + C_FLAG, 255}}
    \cup
    {Program("rti", <<Image(ROM_START, <<64>>),
                      Image(ZERO_PAGE_TOP + ((s + 1) % 256), <<popped>>),
                      Image(ZERO_PAGE_TOP + ((s + 2) % 256), <<144>>),
                      Image(ZERO_PAGE_TOP + ((s + 3) % 256), <<5>>)>>,
             ROM_START, Regs(7, 8, 9, s, status)) :
        s \in {16, 253, 254, 255},
        popped \in {0, B_FLAG, F_FLAG, B_FLAG + F_FLAG,
                    255 - B_FLAG - F_FLAG, 255},
        status \in {0, 255}}
    \cup
    {Program("php", <<Image(ROM_START, <<8, 40>>)>>, ROM_START,
             Regs(7, 8, 9, s, status)) :
        s \in StackStarts,
        status \in {0, B_FLAG, F_FLAG, B_FLAG + F_FLAG,
                    N_FLAG + V_FLAG + Z_FLAG + C_FLAG, 255}}
    \cup
    {Program("plp", <<Image(ROM_START, <<40>>),
                      Image(ZERO_PAGE_TOP + ((s + 1) % 256), <<popped>>)>>,
             ROM_START, Regs(7, 8, 9, s, status)) :
        s \in {16, 255},
        popped \in Bytes,
        status \in {0, 255}}

\* each of the 256 opcode bytes at ROM_START with the operand bytes 0x10,
\* 0x00, the cells 0x10, 0x11 holding 3, 4, and every flag clear or set
OpcodeCases ==
    {Program("op", <<Image(ROM_START, <<opcode, 16, 0>>),
                     Image(16, <<3, 4>>)>>,
             ROM_START, Regs(7, 1, 2, 128, status)) :
        opcode \in Bytes, status \in {0, 255}}

\* the indexed modes with a page crossing: LDA in AbsoluteX (0xB9) and
\* AbsoluteY (0xBD) with the operand bytes 0x20, low, and DCP in IndexedY
\* (0xD3) through the pointer cells 0x10, 0x11 holding 0x20, low; every low
\* byte, index values at both ends of a byte, carry clear and set; JAM
\* follows the instruction
IndexedCases ==
    {Program("indexed", <<Image(ROM_START, <<opcode, 32, low, 2>>)>>,
             ROM_START, Regs(7, index, index, 128, carry)) :
        opcode \in {185, 189}, low \in Bytes,
        index \in {0, 1, 2, 128, 255}, carry \in {0, C_FLAG}}
    \cup
    {Program("indexed", <<Image(ROM_START, <<211, 16, 2>>),
                          Image(16, <<32, low>>)>>,
             ROM_START, Regs(7, index, index, 128, carry)) :
        low \in Bytes, index \in {0, 1, 2, 128, 255}, carry \in {0, C_FLAG}}

Programs ==
    BranchPrograms \cup JsrPrograms \cup EdgePrograms \cup BranchCases
        \cup TrapCases \cup OpcodeCases \cup IndexedCases

\* whether every image lies inside the array
Fits(loads) ==
    \A i \in 1..Len(loads) : loads[i].at + Len(loads[i].data) <= MEMORY_MAX

\* Memory::load of each image in turn
RECURSIVE LoadAll(_, _)
LoadAll(ram, loads) ==
    IF loads = <<>> THEN ram
    ELSE LoadAll(load(ram, Head(loads).at, Head(loads).data), Tail(loads))

\* the harness: load the images, set PC and the registers
LoadProgram ==
    /\ fault = "none"
    /\ trace = <<>>
    /\ \E g \in Programs :
          /\ Becomes(IF Fits(g.loads)
                     THEN [Proc EXCEPT !.mem = LoadAll(mem, g.loads),
                                       !.pc = g.pc, !.a = g.regs.a,
                                       !.x = g.regs.x, !.y = g.regs.y,
                                       !.sp = g.regs.sp,
                                       !.status = g.regs.status]
                     ELSE Panic(Proc, "bounds"))
          /\ Logged(Op("setup", g.name, "", g.pc, g.regs.sp))

\* a ROM of one whole PRG-ROM unit, as Cartridge::load cuts it: JAM at its
\* start, zeros, and in its last six bytes the three vectors of the
\* cartridge, each 0x8003
FullRom ==
    [i \in 1..PRG_ROM_UNIT_SIZE |->
        IF i = 1 THEN 2
        ELSE IF i <= PRG_ROM_UNIT_SIZE - 6 THEN 0
        ELSE IF i % 2 = 1 THEN 3 ELSE 128]

\* the ROM images a cartridge holds: the branch loop, JAM alone and after
\* LDA #5, the programs of test_adc and test_and, and a ROM of a whole unit
Roms == {BranchLoop, <<2>>, <<169, 5, 2>>, <<169, 1, 56, 105, 1>>,
         <<169, 3, 41, 2>>, FullRom}

\* the reset_pc argument: None (ROM_START), the start of the ROM mirror, an
\* address inside the ROM with both bytes non-zero, and an address in RAM
ResetPcs == {ROM_START, ROM_START + PRG_ROM_UNIT_SIZE, ROM_START + 3,
             2 * ZERO_PAGE_TOP + 1}

\* a Nes::reset that loads the ROM at 0x8000 only
NesReset_unmirrored ==
    /\ fault = "none"
    /\ trace = <<>>
    /\ \E rom \in Roms, reset_pc \in ResetPcs :
          LET reset_vector == <<And8(reset_pc, 255),
                                And8(reset_pc \div 256, 255)>>
              m1 == load(mem, ROM_START, rom)
              m3 == load(m1, RESET_VECTOR, reset_vector)
          IN  /\ Becomes(reset([Proc EXCEPT !.mem = m3]))
              /\ Logged(Op("setup", "rom", "", reset_pc, Len(rom)))

\* Nes::reset: ROM at 0x8000, again at 0xC000 when it is one unit or less,
\* the reset vector low byte first, then Processor::reset
NesReset ==
    /\ fault = "none"
    /\ trace = <<>>
    /\ \E rom \in Roms, reset_pc \in ResetPcs :
          LET reset_vector == <<And8(reset_pc, 255),
                                And8(reset_pc \div 256, 255)>>
              m1 == load(mem, ROM_START, rom)
              m2 == IF Len(rom) <= PRG_ROM_UNIT_SIZE
                    THEN load(m1, ROM_START + PRG_ROM_UNIT_SIZE, rom)
                    ELSE m1
              m3 == load(m2, RESET_VECTOR, reset_vector)
          IN  /\ Becomes(reset([Proc EXCEPT !.mem = m3]))
              /\ Logged(Op("setup", "rom", "", reset_pc, Len(rom)))

Exec == ExecStep(MaxSteps)

Next == LoadProgram \/ NesReset \/ Exec

Spec == Init /\ [][Next]_vars

(***************************************************************************)
(* Properties.                                                             *)
(***************************************************************************)
\* the last operation performed and the processor before it
Last == trace[Len(trace)]

LastIs(kind) == Len(trace) > 0 /\ Last.kind = kind

LastExec(op) == Len(trace) > 0 /\ Last.kind = "exec" /\ Last.op = op

\* whether a status byte has the flag set, by arithmetic
Has(status, flag) == (status \div flag) % 2 = 1

\* C1: mirror invariant. After any sequence of write and load operations,
\* for every address a in [0, 0x2000), read(a) equals read(a mod 0x800).
C1_MirrorInvariant ==
    \A a \in 0..(MIRROR_TOP - 1) : read(mem, a) = read(mem, a % RAM_TOP)

\* C1 witness: a byte written below 0x800 is read back, non-zero, from the
\* mirror window at 0x800 while the cell 0x800 itself holds something else
C1_Witness ==
    /\ LastIs("read")
    /\ Last.arg = 2048
    /\ Last.ret = 24
    /\ ramAt(mem, 2048) # 24
    /\ read(mem, 0) = 24

\* C2: decode totality. Every opcode byte decodes to a (handler, mode) pair
\* without faulting; a byte that is no implemented instruction resolves to
\* jam, and nop is the result for 0xEA only.
C2_DecodeTotal ==
    \A i \in 1..Len(trace) :
        trace[i].kind = "decode" =>
            /\ trace[i].op # "panic"
            /\ trace[i].mode \in Modes
            /\ (trace[i].op = "nop" <=> trace[i].arg = 234)

\* C3: stack round-trip. stack_push(v) followed immediately by stack_pop()
\* returns v and leaves SP as it was before the push, for every SP; a push at
\* SP = 0x00 leaves SP = 0xFF and a pop at SP = 0xFF leaves SP = 0x00; a push
\* writes at the old stack top, a pop reads at the new one.
C3_StackRoundTrip ==
    /\ (Len(trace) >= 2 /\ Last.kind = "pop"
            /\ trace[Len(trace) - 1].kind = "push") =>
          /\ Last.ret = trace[Len(trace) - 1].arg
          /\ state.sp = trace[Len(trace) - 1].pre.sp
    /\ LastIs("push") =>
          /\ state.sp = (Last.pre.sp + 255) % 256
          /\ ramAt(mem, ZERO_PAGE_TOP + Last.pre.sp) = Last.arg
    /\ LastIs("pop") =>
          /\ state.sp = (Last.pre.sp + 1) % 256
          /\ Last.ret = ramAt(mem, ZERO_PAGE_TOP + state.sp)
          /\ mem = Last.pre.mem

\* C3 witness: a non-zero byte pushed at SP = 0x00 (SP wraps to 0xFF) and
\* popped at once (SP wraps back to 0x00)
C3_Witness ==
    /\ Len(trace) = 3
    /\ Last.kind = "pop"
    /\ trace[2].kind = "push"
    /\ trace[2].pre.sp = 0
    /\ Last.pre.sp = 255
    /\ Last.ret = 128
    /\ state.sp = 0

\* the JSR of entry j: executed at address p with stack pointer s
JsrAt(j) == trace[j].kind = "exec" /\ trace[j].op = "jsr"

\* the processor after the JSR of entry j (the one before entry j + 1)
AfterJsr(j) == trace[j + 1].pre

\* the stack cell a push at stack pointer sp writes
StackCell(sp) == ZERO_PAGE_TOP + sp

\* when the last step is an RTS: SP is back at s - 2 (mod 256) and the two
\* return bytes the JSR of entry j pushed are as it left them
ReturnIntact(j) ==
    LET s == trace[j].pre.sp
    IN  /\ Last.pre.sp = (s + 254) % 256
        /\ ramAt(Last.pre.mem, StackCell(s)) =
              ramAt(AfterJsr(j).mem, StackCell(s))
        /\ ramAt(Last.pre.mem, StackCell((s + 255) % 256)) =
              ramAt(AfterJsr(j).mem, StackCell((s + 255) % 256))

\* C4: JSR/RTS round-trip. If JSR is executed at address p with stack
\* pointer s, and when RTS executes the two pushed return bytes are intact
\* and SP is back at s-2 (mod 256), then after RTS the PC equals p+3 and SP
\* equals s.
C4_JsrRtsRoundTrip ==
    \A j \in 1..(Len(trace) - 1) :
        (LastExec("rts") /\ JsrAt(j) /\ ReturnIntact(j)) =>
            /\ fault = "none"
            /\ state.pc = trace[j].pre.pc + 3
            /\ state.sp = trace[j].pre.sp

\* C4 witness: JSR at 0x80FD with SP = 0x00, the body PHA PLA RTS, and the
\* RTS returns across the page to 0x8100 with SP = 0x00 again
C4_Witness ==
    /\ Len(trace) = 5
    /\ LastExec("rts")
    /\ JsrAt(2)
    /\ ReturnIntact(2)
    /\ trace[2].pre.pc = 33021
    /\ trace[2].pre.sp = 0
    /\ trace[3].op = "pha"
    /\ state.pc = 33024
    /\ state.sp = 0

\* the branch loop placed at s by the harness
BranchAt(s) ==
    /\ Len(trace) >= 1
    /\ trace[1].kind = "setup"
    /\ trace[1].op = "branch"
    /\ trace[1].arg = s
    /\ s + Len(BranchLoop) <= MEMORY_MAX

\* the pass through the loop: PC after the load, SEC, BCS, CLC, BCC
LoopPc(s) == <<s, s + 1, s + 4, s + 5, s>>

\* the handlers of the pass
LoopOps == <<"sec", "bcs", "clc", "bcc">>

\* the loop runs from s as written: one pass returns PC to s, the NOP skipped
RoundTrip(s) ==
    /\ fault = "none"
    /\ Len(trace) <= 5 => state.pc = LoopPc(s)[Len(trace)]
    /\ \A i \in 2..Len(trace) : i <= 5 => trace[i].op = LoopOps[i - 1]

\* the bytes of a program of length n at s are read back as loaded: no cell
\* of it lies in a mirror window of the RAM
ReadAsLoaded(s, n) == s + n <= RAM_TOP \/ s >= MIRROR_TOP

\* C5: branch round-trip. With SEC; BCS +3; NOP; CLC; BCC -5 loaded at s and
\* PC = s, exec returns PC to s after one pass (SEC, taken BCS, CLC, taken
\* BCC) and the NOP is skipped, for every start address s at which the
\* program fits in memory and none of its cells lies in a mirror window of
\* the RAM (s + 7 <= 0x800 or s >= 0x2000).
C5_BranchRoundTrip ==
    \A s \in BranchStarts :
        (BranchAt(s) /\ ReadAsLoaded(s, Len(BranchLoop))) => RoundTrip(s)

\* C5 as the specification words it: for every start address s at which the
\* program fits in memory
C5_BranchRoundTripAnywhere ==
    \A s \in BranchStarts : BranchAt(s) => RoundTrip(s)

\* C5 witness: the loop at 0xFC, whose BCS crosses into the next page, is
\* back at 0xFC after SEC, BCS, CLC, BCC
C5_Witness ==
    /\ BranchAt(252)
    /\ Len(trace) = 5
    /\ Last.op = "bcc"
    /\ Last.pre.pc = 257
    /\ trace[3].op = "bcs"
    /\ state.pc = 252

\* a byte as a signed 8-bit number
Signed(b) == IF b >= 128 THEN b - 256 ELSE b

\* the operand of the immediate instruction the last step executed
Operand == read(Last.pre.mem, Last.pre.pc + 1)

\* C6: ADC matches the reference adder. For every A, M and carry-in c, after
\* ADC the accumulator is (A+M+c) mod 256, C iff A+M+c > 255, Z iff the
\* result is 0, N iff bit 7 of the result is set, V iff the signed sum lies
\* outside -128..127; 0x50+0x50+0 gives 0xA0 with N, V and not C, Z;
\* 0xFF+0xFF+1 gives 0xFF with C, N and not V.
C6_AdcReference ==
    LastExec("adc") =>
        LET A == Last.pre.a
            M == Operand
            c == Last.pre.status % 2
            sum == A + M + c
            signed == Signed(A) + Signed(M) + c
            set(flag) == Has(state.status, flag)
        IN  /\ fault = "none"
            /\ state.a = sum % 256
            /\ set(C_FLAG) <=> sum > 255
            /\ set(Z_FLAG) <=> sum % 256 = 0
            /\ set(N_FLAG) <=> sum % 256 >= 128
            /\ set(V_FLAG) <=> (signed < -128 \/ signed > 127)
            /\ (A = 80 /\ M = 80 /\ c = 0) =>
                  /\ state.a = 160
                  /\ set(N_FLAG) /\ set(V_FLAG)
                  /\ ~set(C_FLAG) /\ ~set(Z_FLAG)
            /\ (A = 255 /\ M = 255 /\ c = 1) =>
                  /\ state.a = 255
                  /\ set(C_FLAG) /\ set(N_FLAG)
                  /\ ~set(V_FLAG)

\* C6 witness: 0x50 + 0x50 with carry clear gives 0xA0 with N and V set
C6_Witness ==
    /\ LastExec("adc")
    /\ Last.pre.a = 80
    /\ Operand = 80
    /\ Last.pre.status = 0
    /\ state.a = 160
    /\ Has(state.status, V_FLAG)
    /\ Has(state.status, N_FLAG)

\* C7: SBC is ADC on the complemented operand. For every A, M and carry-in
\* c, SBC with operand M produces the accumulator and the N, V, Z, C flags
\* that ADC produces with operand M XOR 0xFF and the same A and c; the
\* result is (A - M - (1-c)) mod 256 and C is set iff no borrow occurred.
C7_SbcIsAdcComplement ==
    LastExec("sbc") =>
        LET pre == Last.pre
            M == Operand
            c == pre.status % 2
            diff == pre.a - M - (1 - c)
            complemented == write(pre.mem, pre.pc + 1, Xor8(M, 255))
            ref == adc([pre EXCEPT !.mem = complemented], "Immediate")
        IN  /\ fault = "none"
            /\ ref.fault = "none"
            /\ state.a = ref.a
            /\ \A flag \in {N_FLAG, V_FLAG, Z_FLAG, C_FLAG} :
                  Has(state.status, flag) <=> Has(ref.status, flag)
            /\ state.a = (diff + 256) % 256
            /\ Has(state.status, C_FLAG) <=> diff >= 0

\* C7 witness: 0x50 - 0xF0 with carry clear borrows: 0x5F with C clear
C7_Witness ==
    /\ LastExec("sbc")
    /\ Last.pre.a = 80
    /\ Operand = 240
    /\ Last.pre.status = 0
    /\ state.a = 95
    /\ ~Has(state.status, C_FLAG)

\* C8: AND. For every A and operand M, after AND the accumulator is A AND M,
\* Z is set iff the result is 0, N iff bit 7 of the result is set, and the
\* C, V, D, I flags, X, Y, SP and memory are unchanged; 0xFF AND 0x80 gives
\* 0x80 with N set and Z clear.
C8_And ==
    LastExec("and") =>
        LET pre == Last.pre
            M == Operand
        IN  /\ fault = "none"
            /\ \A i \in 0..7 : Bit(state.a, i) = Bit(pre.a, i) * Bit(M, i)
            /\ Has(state.status, Z_FLAG) <=> state.a = 0
            /\ Has(state.status, N_FLAG) <=> Bit(state.a, 7) = 1
            /\ \A flag \in {C_FLAG, V_FLAG, D_FLAG, I_FLAG} :
                  Has(state.status, flag) <=> Has(pre.status, flag)
            /\ state.x = pre.x
            /\ state.y = pre.y
            /\ state.sp = pre.sp
            /\ mem = pre.mem
            /\ (pre.a = 255 /\ M = 128) =>
                  /\ state.a = 128
                  /\ Has(state.status, N_FLAG)
                  /\ ~Has(state.status, Z_FLAG)

\* C8 witness: 0xFF AND 0x80 with Z set and C clear before gives 0x80 with N
\* set, Z cleared and C still clear
C8_Witness ==
    /\ LastExec("and")
    /\ Last.pre.a = 255
    /\ Operand = 128
    /\ Last.pre.status = 178
    /\ state.a = 128
    /\ Has(state.status, N_FLAG)
    /\ ~Has(state.status, Z_FLAG)
    /\ ~Has(state.status, C_FLAG)

\* C9: 16-bit address safety. After any sequence of exec steps the PC is in
\* 0..0xFFFF, and no exec step faults on an address out of range or an
\* address computation that overflows.
C9_AddressSafety ==
    LastIs("exec") =>
        /\ state.pc \in 0..(MEMORY_MAX - 1)
        /\ fault \notin {"bounds", "overflow"}

\* C10: JAM is fatal and side-effect free. When exec fetches an opcode that
\* decodes to jam the step ends in a fault; registers, status, SP, PC, memory
\* and the cycle counter keep the values they had before the step; and no
\* later instruction is executed.
C10_JamFatal ==
    \A i \in 1..Len(trace) :
        (trace[i].kind = "exec" /\ trace[i].op = "jam") =>
            /\ i = Len(trace)
            /\ fault # "none"
            /\ state = [a |-> trace[i].pre.a, sp |-> trace[i].pre.sp,
                        pc |-> trace[i].pre.pc, x |-> trace[i].pre.x,
                        y |-> trace[i].pre.y, status |-> trace[i].pre.status]
            /\ mem = trace[i].pre.mem
            /\ cycles = trace[i].pre.cycles

\* C10 witness: LDA #5 then JAM at 0x0202: the fault is raised with A = 5 and
\* the PC still at the JAM
C10_Witness ==
    /\ Len(trace) = 3
    /\ LastExec("jam")
    /\ trace[2].op = "lda"
    /\ fault = "jam"
    /\ state.a = 5
    /\ state.pc = 514
    /\ cycles > 0

\* whether the last operation was Nes::reset
AfterReset == LastIs("setup") /\ Last.op = "rom"

\* C11: reset loads the PC little-endian from the reset vector. After
\* reset(), PC = read(0xFFFC) + 256 * read(0xFFFD), whatever the memory holds.
C11_ResetVector ==
    AfterReset =>
        /\ state.pc = read(mem, RESET_VECTOR)
                      + 256 * read(mem, RESET_VECTOR + 1)
        /\ state.pc = Last.arg

\* C11 witness: a reset through the vector 0x03, 0x80, whose two bytes are
\* non-zero and differ, leaves PC = 0x8003
C11_Witness ==
    /\ AfterReset
    /\ read(mem, RESET_VECTOR) = 3
    /\ read(mem, RESET_VECTOR + 1) = 128
    /\ state.pc = ROM_START + 3

\* C12: reset sets the stack pointer. After reset(), SP equals 0xFF whatever
\* its value was before.
C12_ResetSetsSp == AfterReset => state.sp = 255

\* the addresses a, a + 0x800, a + 0x1000, a + 0x1800 of a RAM cell
Images(a) == {a + k * RAM_TOP : k \in 0..3}

\* the addresses at which a read can depend on a cell that the memory held
\* before the last operation, holds now, or that the operation named; every
\* other address reads a cell that is 0 before and after
Probes ==
    UNION {Images(c % RAM_TOP) \cup {c} :
              c \in (DOMAIN mem \cup DOMAIN Last.pre.mem \cup {Last.arg})}

\* whether the last operation changed what read returns at b
ReadChanged(b) == read(mem, b) # read(Last.pre.mem, b)

\* C13: write(a, v) stores only at the literal cell a. A write to a in
\* [0, 0x800) makes read return v at a, a + 0x800, a + 0x1000 and a + 0x1800
\* and changes no other read; a write to a in [0x800, 0x2000) changes no read
\* at any address, a itself included; a write to a >= 0x2000 changes only
\* read(a).
C13_WriteFrame ==
    (LastIs("write") /\ fault = "none") =>
        LET a == Last.arg
            v == Last.ret
        IN  /\ mem = ramSet(Last.pre.mem, a, v)
            /\ a < RAM_TOP =>
                  /\ \A b \in Images(a) : read(mem, b) = v
                  /\ \A b \in Probes \ Images(a) : ~ReadChanged(b)
            /\ (a >= RAM_TOP /\ a < MIRROR_TOP) =>
                  \A b \in Probes : ~ReadChanged(b)
            /\ a >= MIRROR_TOP =>
                  /\ read(mem, a) = v
                  /\ \A b \in Probes \ {a} : ~ReadChanged(b)

\* C13 witness: after the image 7, 9 was loaded at 0x800, a write of 0x18 at
\* 0x800 replaces the 7 in the cell, and read(0x800) returns ram[0] = 0 as it
\* did before
C13_Witness ==
    /\ LastIs("write")
    /\ Last.arg = RAM_TOP
    /\ Last.ret = 24
    /\ ramAt(mem, RAM_TOP) = 24
    /\ ramAt(Last.pre.mem, RAM_TOP) = 7
    /\ read(mem, RAM_TOP) = 0
    /\ read(Last.pre.mem, RAM_TOP) = 0

\* the eight branch instructions
BranchOps == {"bpl", "bmi", "bvc", "bvs", "bcc", "bcs", "bne", "beq"}

\* whether the branch op is taken with this status, by the flag it tests
Taken(op, status) ==
    CASE op = "bpl" -> ~Has(status, N_FLAG)
      [] op = "bmi" -> Has(status, N_FLAG)
      [] op = "bvc" -> ~Has(status, V_FLAG)
      [] op = "bvs" -> Has(status, V_FLAG)
      [] op = "bcc" -> ~Has(status, C_FLAG)
      [] op = "bcs" -> Has(status, C_FLAG)
      [] op = "bne" -> ~Has(status, Z_FLAG)
      [] op = "beq" -> Has(status, Z_FLAG)

\* whether the last operation was a branch instruction that completed
AfterBranch == LastIs("exec") /\ Last.op \in BranchOps /\ fault = "none"

\* the 256-byte page of an address
Page(address) == address \div 256

\* C14: branch timing. For each of the eight branch instructions one exec
\* adds exactly 2 cycles when the branch is not taken, exactly 3 when it is
\* taken and the target is in the page of the current PC, and exactly 4 when
\* it is taken and the target is in a different page, forward or backward.
C14_BranchTiming ==
    AfterBranch =>
        cycles - Last.pre.cycles =
            IF ~Taken(Last.op, Last.pre.status) THEN 2
            ELSE IF Page(state.pc) = Page(Last.pre.pc) THEN 3
            ELSE 4

\* C15: untaken branch. When the tested flag does not satisfy the branch
\* condition the resolver is not invoked (the step costs the base 2 cycles
\* and cannot fail on the displacement), PC advances by exactly 2, and A, X,
\* Y, SP, status and memory are unchanged.
C15_UntakenBranch ==
    (LastIs("exec") /\ Last.op \in BranchOps
        /\ ~Taken(Last.op, Last.pre.status)) =>
        /\ fault = "none"
        /\ state = [a |-> Last.pre.a, sp |-> Last.pre.sp,
                    pc |-> Last.pre.pc + 2, x |-> Last.pre.x,
                    y |-> Last.pre.y, status |-> Last.pre.status]
        /\ mem = Last.pre.mem
        /\ cycles = Last.pre.cycles + 2

\* C15 witness: BCC -5 at address 3 with the carry set is not taken, though
\* its target would lie below address 0: PC = 5 and two cycles are spent
C15_Witness ==
    /\ Len(trace) = 2
    /\ LastExec("bcc")
    /\ Last.pre.pc = 3
    /\ read(mem, 4) = 251
    /\ Has(Last.pre.status, C_FLAG)
    /\ state.pc = 5
    /\ state.a = 7
    /\ cycles = 2
    /\ fault = "none"

\* C16: JSR return-address layout. JSR at address p with stack pointer s
\* pushes the high byte of p + 2 first and the low byte second: afterwards
\* cell 0x0100 + s holds (p + 2) >> 8, cell 0x0100 + ((s - 1) mod 256) holds
\* (p + 2) AND 0xFF, SP = (s - 2) mod 256, and PC is the resolved target.
C16_JsrLayout ==
    (LastExec("jsr") /\ fault = "none") =>
        LET s == Last.pre.sp
            ret == Last.pre.pc + 2
        IN  /\ read(mem, StackCell(s)) = (ret \div 256) % 256
            /\ read(mem, StackCell((s + 255) % 256)) = ret % 256
            /\ state.sp = (s + 254) % 256
            /\ state.pc = lookup(Last.pre, Last.mode).address

\* the stack cell the k-th push after the last operation began has written
Pushed(k) == read(mem, StackCell((Last.pre.sp + 257 - k) % 256))

\* C17: BRK trap entry. BRK at address p with status P and stack pointer s
\* pushes the PC high byte, then the PC low byte, then the byte P OR 0x30,
\* leaves SP = (s - 3) mod 256, sets the I flag in status and changes no
\* other status bit.
C17_BrkEntry ==
    (LastExec("brk") /\ fault = "none") =>
        /\ Pushed(1) = (Last.pre.pc \div 256) % 256
        /\ Pushed(2) = Last.pre.pc % 256
        /\ Pushed(3) = Or8(Last.pre.status, B_FLAG + F_FLAG)
        /\ state.sp = (Last.pre.sp + 253) % 256
        /\ state.status = Or8(Last.pre.status, I_FLAG)

\* C18: BRK vectors through memory. After BRK the PC equals the 16-bit
\* little-endian value held in the IRQ/BRK vector cells,
\* read(0xFFFE) + 256 * read(0xFFFF), as reset loads PC from 0xFFFC, 0xFFFD.
C18_BrkVector ==
    (LastExec("brk") /\ fault = "none") =>
        state.pc = read(mem, IRQ_BRK_VECTOR)
                   + 256 * read(mem, IRQ_BRK_VECTOR + 1)

\* the byte the k-th pop of the last operation returned
Popped(k) == read(Last.pre.mem, StackCell((Last.pre.sp + k) % 256))

\* C19: RTI masks B and bit 5. After RTI the status register equals the
\* popped status byte with bit 4 (B) and bit 5 cleared, for every popped
\* byte, and PC is the address formed from the next two popped bytes.
C19_RtiMasks ==
    (LastExec("rti") /\ fault = "none") =>
        /\ state.status = And8(Popped(1), 255 - B_FLAG - F_FLAG)
        /\ state.pc \in {Popped(2) + 256 * Popped(3),
                         Popped(3) + 256 * Popped(2)}

\* C20: PHP pushes the status with bits 4 and 5 forced set and has no side
\* effect on status. After PHP with status P and stack pointer s, cell
\* 0x0100 + s holds P OR 0x30, the status register still equals P,
\* SP = (s - 1) mod 256 and PC advanced by 1.
C20_Php ==
    LastExec("php") =>
        /\ fault = "none"
        /\ Pushed(1) = Or8(Last.pre.status, B_FLAG + F_FLAG)
        /\ state.status = Last.pre.status
        /\ state.sp = (Last.pre.sp + 255) % 256
        /\ state.pc = Last.pre.pc + 1
        /\ mem = write(Last.pre.mem, StackCell(Last.pre.sp), Pushed(1))
        /\ state.a = Last.pre.a /\ state.x = Last.pre.x
        /\ state.y = Last.pre.y

\* C20 witness: PHP with status 0xC3 and SP = 0x00 writes 0xF3 at 0x0100,
\* SP wraps to 0xFF and the status register still holds 0xC3
C20_Witness ==
    /\ LastExec("php")
    /\ Last.pre.status = N_FLAG + V_FLAG + Z_FLAG + C_FLAG
    /\ Last.pre.sp = 0
    /\ read(mem, ZERO_PAGE_TOP) = 243
    /\ state.status = 195
    /\ state.sp = 255
    /\ state.pc = ROM_START + 1

\* the status bits N, V, D, I, Z and C
Flags(status) == And8(status, 255 - B_FLAG - F_FLAG)

\* C21: PLP restores status with bit 5 forced set and bit 4 cleared. For
\* every popped byte b, after PLP status = (b AND NOT 0x10) OR 0x20; so PHP
\* immediately followed by PLP leaves N, V, D, I, Z, C and SP as they were
\* before the PHP.
C21_Plp ==
    LastExec("plp") =>
        /\ fault = "none"
        /\ state.status = Or8(And8(Popped(1), 255 - B_FLAG), F_FLAG)
        /\ state.sp = (Last.pre.sp + 1) % 256
        /\ (Len(trace) > 2 /\ trace[Len(trace) - 1].kind = "exec"
               /\ trace[Len(trace) - 1].op = "php") =>
              /\ Flags(state.status) = Flags(trace[Len(trace) - 1].pre.status)
              /\ state.sp = trace[Len(trace) - 1].pre.sp

\* C21 witness: PHP then PLP from status 0xC3 and SP = 0x00: the byte 0xF3
\* is pushed and popped, the status comes back as 0xE3, B cleared and bit 5
\* set, the six flags as before, and SP is 0x00 again
C21_Witness ==
    /\ Len(trace) = 3
    /\ LastExec("plp")
    /\ trace[2].op = "php"
    /\ trace[2].pre.status = N_FLAG + V_FLAG + Z_FLAG + C_FLAG
    /\ trace[2].pre.sp = 0
    /\ Popped(1) = 243
    /\ state.status = 227
    /\ state.sp = 0

\* the memory operand of the zero-page instruction the last step executed
CellOperand == read(Last.pre.mem, read(Last.pre.mem, Last.pre.pc + 1))

\* C22: BIT. For every A and operand M, after BIT the Z flag is set iff
\* (A AND M) = 0, the N flag equals bit 7 of M and the V flag equals bit 6 of
\* M (taken from the operand, not from the AND result), and A, X, Y, SP,
\* memory and the C, D, I flags are unchanged.
C22_Bit ==
    LastExec("bit") =>
        LET pre == Last.pre
            M == CellOperand
        IN  /\ fault = "none"
            /\ Has(state.status, Z_FLAG) <=>
                  \A i \in 0..7 : Bit(pre.a, i) * Bit(M, i) = 0
            /\ Has(state.status, N_FLAG) <=> M >= 128
            /\ Has(state.status, V_FLAG) <=> (M \div 64) % 2 = 1
            /\ \A flag \in {C_FLAG, D_FLAG, I_FLAG} :
                  Has(state.status, flag) <=> Has(pre.status, flag)
            /\ state.a = pre.a
            /\ state.x = pre.x
            /\ state.y = pre.y
            /\ state.sp = pre.sp
            /\ mem = pre.mem

\* C22 witness: BIT with A = 0x01 and M = 0xC0 from a clear status: the AND
\* is 0, so Z is set, and N and V are set from the operand
C22_Witness ==
    /\ LastExec("bit")
    /\ Last.mode = "ZeroPage"
    /\ Last.pre.a = 1
    /\ CellOperand = 192
    /\ Last.pre.status = 0
    /\ state.status = N_FLAG + V_FLAG + Z_FLAG
    /\ state.a = 1

\* C23: DCP decrements then compares. For every A and memory operand M, after
\* DCP the memory cell holds d = (M - 1) mod 256 and the flags are those of
\* comparing A with d: C is set iff A >= d, Z iff A = d, N iff bit 7 of
\* (A - d) mod 256 is set; A is unchanged.
C23_Dcp ==
    LastExec("dcp") =>
        LET pre == Last.pre
            cell == read(pre.mem, pre.pc + 1)
            d == (CellOperand + 255) % 256
        IN  /\ fault = "none"
            /\ read(mem, cell) = d
            /\ Has(state.status, C_FLAG) <=> pre.a >= d
            /\ Has(state.status, Z_FLAG) <=> pre.a = d
            /\ Has(state.status, N_FLAG) <=> (pre.a - d + 256) % 256 >= 128
            /\ state.a = pre.a

\* C24: status bit 5 is always set. In every state reachable from a newly
\* created and reset processor by any sequence of exec steps, bit 5 (0x20) of
\* the status register is 1.
C24_Bit5Set ==
    (Len(trace) > 0 /\ trace[1].op = "rom") => Has(state.status, F_FLAG)

PcSetters == BranchOps \cup {"jmp", "jsr", "rts", "rti", "brk"}

\* the instruction lengths as the claim lists them
Length(mode) ==
    CASE mode \in {"Implied", "Accumulator"} -> 1
      [] mode \in {"Immediate", "ZeroPage", "ZeroPageX", "ZeroPageY",
                   "IndexedX", "IndexedY", "Relative"} -> 2
      [] mode \in {"Absolute", "AbsoluteX", "AbsoluteY", "Indirect"} -> 3

\* C26: PC advance. Every instruction other than the branches, JMP, JSR, RTS,
\* RTI and BRK advances PC by exactly opcode_len(mode): 1 for Implied and
\* Accumulator, 2 for Immediate, ZeroPage, ZeroPageX, ZeroPageY, IndexedX,
\* IndexedY and Relative, 3 for Absolute, AbsoluteX, AbsoluteY and Indirect;
\* so such an instruction never leaves the PC unchanged.
C26_PcAdvance ==
    (LastIs("exec") /\ fault = "none" /\ Last.op \notin PcSetters) =>
        /\ opcode_len(Last.mode) = Length(Last.mode)
        /\ state.pc = Last.pre.pc + Length(Last.mode)
        /\ state.pc # Last.pre.pc

\* C26 witness: STA $1000 at ROM_START leaves PC at ROM_START + 3
C26_Witness ==
    /\ LastExec("sta")
    /\ Last.mode = "Absolute"
    /\ Last.pre.pc = ROM_START
    /\ fault = "none"
    /\ state.pc = ROM_START + 3

\* the un-indexed base address the resolver forms for the last instruction:
\* from the two operand bytes, or from the two pointer cells for IndexedY
IndexBase ==
    LET pre == Last.pre
        at == IF Last.mode = "IndexedY" THEN read(pre.mem, pre.pc + 1)
              ELSE pre.pc + 1
    IN  256 * read(pre.mem, at) + read(pre.mem, at + 1)

\* the cycles the handler of the last instruction adds by itself
HandlerCost == IF Last.op = "dcp" THEN 4 ELSE 2

\* C27: page-crossing penalty of indexed modes. Resolving AbsoluteX,
\* AbsoluteY or IndexedY charges its fixed base cost (2, 2 and 3 cycles) plus
\* exactly one extra cycle if and only if the effective address lies in a
\* different 256-byte page than the un-indexed base address, and no extra
\* cycle otherwise.
C27_IndexedPenalty ==
    (LastIs("exec") /\ Last.op \in {"lda", "dcp"}
        /\ Last.mode \in {"AbsoluteX", "AbsoluteY", "IndexedY"}
        /\ InRam(Last.pre.pc + 2)) =>
        LET L == lookup(Last.pre, Last.mode)
            fixed == IF Last.mode = "IndexedY" THEN 3 ELSE 2
            extra == IF Page(L.address) # Page(IndexBase) THEN 1 ELSE 0
        IN  /\ L.P.cycles = Last.pre.cycles + fixed + extra
            /\ fault = "none" =>
                  cycles = Last.pre.cycles + HandlerCost + fixed + extra

\* C27 witness: LDA with the operand bytes 0x20, 0xFF in AbsoluteX, X = 1 and
\* the carry clear resolves 0x2100 from the base 0x20FF and the step costs
\* 2 + 2 + 1 cycles
C27_Witness ==
    /\ LastExec("lda")
    /\ Last.mode = "AbsoluteX"
    /\ IndexBase = 8447
    /\ Last.pre.x = 1
    /\ Last.pre.status = 0
    /\ lookup(Last.pre, Last.mode).address = 8448
    /\ cycles = Last.pre.cycles + 5
    /\ fault = "none"

\* C28: the decoder follows the published 6502 matrix for the c = 1 group
\* (ORA, AND, EOR, ADC, STA, LDA, CMP, SBC selected by a): the b field
\* selects the addressing mode as b = 0 IndexedX, b = 1 ZeroPage,
\* b = 2 Immediate, b = 3 Absolute, b = 4 IndexedY, b = 5 ZeroPageX,
\* b = 6 AbsoluteY, b = 7 AbsoluteX.
C28_DecodeC1 ==
    (LastIs("decode") /\ Last.arg % 4 = 1) =>
        LET a == Last.arg \div 32
            b == (Last.arg \div 4) % 8
        IN  /\ Last.op = <<"ora", "and", "eor", "adc", "sta", "lda", "cmp",
                           "sbc">>[a + 1]
            /\ Last.mode = <<"IndexedX", "ZeroPage", "Immediate", "Absolute",
                             "IndexedY", "ZeroPageX", "AbsoluteY",
                             "AbsoluteX">>[b + 1]

\* C29: Absolute operands are low byte first. For an instruction at PC in
\* Absolute mode the effective address is read(PC+1) + 256 * read(PC+2), so
\* an operand written $HHLL and encoded as [opcode, LL, HH] resolves to
\* address 0xHHLL.
C29_AbsoluteLowFirst ==
    (LastIs("exec") /\ Last.mode = "Absolute" /\ InRam(Last.pre.pc + 2)) =>
        LET pre == Last.pre
            address == read(pre.mem, pre.pc + 1)
                       + 256 * read(pre.mem, pre.pc + 2)
        IN  /\ lookup(pre, "Absolute").address = address
            /\ (Last.op \in {"jmp", "jsr"} /\ fault = "none") =>
                  state.pc = address

\* C30: update_status touches only the masked flags. For every prior status
\* and every m, n, result and flag mask, each status bit outside the mask
\* keeps the value it had, and each masked flag is recomputed: C is
\* m + n > 0xFF, Z is result = 0, N is bit 7 of the result, and V is set when
\* m and n have the same sign bit and the result has the other one.
C30_UpdateStatus ==
    (LastIs("call") /\ Last.op = "update_status") =>
        LET prior == Last.pre.status
            m == Last.arg[1]
            n == Last.arg[2]
            result == Last.arg[3]
            flag_mask == Last.arg[4]
            Masked(i) == Bit(flag_mask, i) = 1
            Set(i) == Bit(state.status, i) = 1
        IN  /\ \A i \in 0..7 :
                  ~Masked(i) => Bit(state.status, i) = Bit(prior, i)
            /\ Masked(0) => (Set(0) <=> m + n > 255)
            /\ Masked(1) => (Set(1) <=> result = 0)
            /\ Masked(7) => (Set(7) <=> Bit(result, 7) = 1)
            /\ Masked(6) => (Set(6) <=> /\ Bit(m, 7) = Bit(n, 7)
                                        /\ Bit(result, 7) # Bit(m, 7))

\* the table's row 0x50 + 0x50 = 0xAE with V and C masked, on a status of
\* all ones: C is cleared, V stays set, and the stale N and Z are kept
C30_Witness ==
    /\ LastIs("call")
    /\ Last.op = "update_status"
    /\ Last.arg = <<80, 80, 174, V_FLAG + C_FLAG>>
    /\ Last.pre.status = 255
    /\ state.status = 255 - C_FLAG

\* C31: branch conditions. The opcodes 0x10, 0x30, 0x50, 0x70, 0x90, 0xB0,
\* 0xD0, 0xF0 decode to BPL, BMI, BVC, BVS, BCC, BCS, BNE, BEQ in Relative
\* mode, and each is taken exactly when N = 0, N = 1, V = 0, V = 1, C = 0,
\* C = 1, Z = 0, Z = 1 respectively: otherwise the step is the untaken one,
\* PC + 2 for 2 cycles. Of each complementary pair one is taken.
C31_BranchConditions ==
    (LastIs("exec") /\ Last.arg % 32 = 16) =>
        LET a == Last.arg \div 32
            flag == <<N_FLAG, V_FLAG, C_FLAG, Z_FLAG>>[(a \div 2) + 1]
            condition == Has(Last.pre.status, flag) <=> (a % 2 = 1)
            untaken == /\ fault = "none"
                       /\ state.pc = Last.pre.pc + 2
                       /\ cycles = Last.pre.cycles + 2
        IN  /\ Last.op = <<"bpl", "bmi", "bvc", "bvs", "bcc", "bcs", "bne",
                           "beq">>[a + 1]
            /\ Last.mode = "Relative"
            /\ condition <=> ~untaken

\* BVS +5 at 0x8003 with V alone set is taken: PC = 0x8008, the resolver
\* adding the displacement to the address of the instruction
C31_Witness ==
    /\ LastIs("exec")
    /\ Last.arg = 112
    /\ Last.pre.pc = ROM_START + 3
    /\ Last.pre.status = V_FLAG
    /\ state.pc = ROM_START + 8

\* C32: BRK/RTI round trip. Executing BRK and then RTI with no stack
\* activity in between returns SP to its value before the BRK, sets PC to the
\* address whose bytes BRK pushed, and restores the N, V, D, I, Z and C flags
\* to their values before the BRK.
C32_BrkRtiRoundTrip ==
    (LastExec("rti") /\ fault = "none" /\ Len(trace) > 1
        /\ trace[Len(trace) - 1].kind = "exec"
        /\ trace[Len(trace) - 1].op = "brk") =>
        LET before == trace[Len(trace) - 1].pre
            s == before.sp
            pushed(k) == read(Last.pre.mem, StackCell((s + 257 - k) % 256))
        IN  /\ state.sp = s
            /\ state.pc \in {pushed(1) + 256 * pushed(2),
                             pushed(2) + 256 * pushed(1)}
            /\ state.pc = before.pc
            /\ Flags(state.status) = Flags(before.status)

\* BRK at 0x80FF with status 0xC3 and SP = 0x80, the RTI at its target: the
\* I flag BRK set is clear again, SP = 0x80 and PC = 0x80FF
C32_Witness ==
    /\ LastExec("rti")
    /\ Len(trace) > 1
    /\ trace[Len(trace) - 1].op = "brk"
    /\ Last.pre.status = N_FLAG + V_FLAG + Z_FLAG + C_FLAG + I_FLAG
    /\ state.status = N_FLAG + V_FLAG + Z_FLAG + C_FLAG + B_FLAG + F_FLAG
    /\ state.sp = 128
    /\ state.pc = ROM_START + 255

\* C33: RTS is compatible with a return address laid down by any means. If
\* the byte at 0x0100 + ((SP + 1) mod 256) is L and the byte at
\* 0x0100 + ((SP + 2) mod 256) is H, RTS pops the low byte L first and the
\* high byte H second, sets PC = (H * 256 + L) + 1 and increases SP by 2
\* (mod 256).
C33_RtsLowFirst ==
    (LastExec("rts") /\ fault = "none") =>
        LET L == Popped(1)
            H == Popped(2)
        IN  /\ state.pc = (H * 256 + L) + 1
            /\ state.sp = (Last.pre.sp + 2) % 256

\* whether the last operation was Nes::reset
AfterNesReset == LastIs("setup") /\ Last.op = "rom"

\* the ROM of the cartridge the last Nes::reset loaded
Rom == CHOOSE rom \in Roms : Len(rom) = Last.ret

\* C34: small-ROM mirroring at reset. After Nes::reset with a PRG-ROM of
\* length L <= 16KB, for every offset i < L both read(0x8000 + i) and
\* read(0xC000 + i) return rom[i], and the PC equals the requested reset
\* address (0x8000 when none is given).
C34_SmallRomMirror ==
    (AfterNesReset /\ Len(Rom) <= PRG_ROM_UNIT_SIZE) =>
        /\ \A i \in 0..(Len(Rom) - 1) :
              /\ read(mem, ROM_START + i) = Rom[i + 1]
              /\ read(mem, ROM_START + PRG_ROM_UNIT_SIZE + i) = Rom[i + 1]
        /\ state.pc = Last.arg

\* C34 as the code has it: after Nes::reset with a PRG-ROM of length
\* L <= 16KB, for every offset i < L read(0x8000 + i) returns rom[i], and
\* read(0xC000 + i) returns rom[i] unless 0xC000 + i is one of the two reset
\* vector cells 0xFFFC, 0xFFFD, which hold the requested reset address low
\* byte first; and the PC equals the requested reset address.
C34_SmallRomMirrorBelowVector ==
    (AfterNesReset /\ Len(Rom) <= PRG_ROM_UNIT_SIZE) =>
        /\ \A i \in 0..(Len(Rom) - 1) :
              /\ read(mem, ROM_START + i) = Rom[i + 1]
              /\ ROM_START + PRG_ROM_UNIT_SIZE + i
                      \notin {RESET_VECTOR, RESET_VECTOR + 1} =>
                    read(mem, ROM_START + PRG_ROM_UNIT_SIZE + i) = Rom[i + 1]
        /\ read(mem, RESET_VECTOR) + 256 * read(mem, RESET_VECTOR + 1)
              = Last.arg
        /\ state.pc = Last.arg

\* a ROM of a whole unit reset to 0x0201: the mirror holds the cartridge's
\* vector bytes 0x03, 0x80 on both sides of the reset vector, whose cells
\* hold 0x01, 0x02
C34_Witness ==
    /\ AfterNesReset
    /\ Len(Rom) = PRG_ROM_UNIT_SIZE
    /\ read(mem, RESET_VECTOR - 2) = 3
    /\ read(mem, RESET_VECTOR) = 1
    /\ read(mem, RESET_VECTOR + 1) = 2
    /\ read(mem, RESET_VECTOR + 3) = 128
    /\ read(mem, ROM_START + PRG_ROM_UNIT_SIZE - 4) = 3
    /\ state.pc = 2 * ZERO_PAGE_TOP + 1

\* the mode constants of the claim and the addressing modes they name
ModeNames ==
    {<<MODE_IMM, "Immediate">>, <<MODE_ZPG, "ZeroPage">>,
     <<MODE_ZPX, "ZeroPageX">>, <<MODE_ABS, "Absolute">>,
     <<MODE_ABX, "AbsoluteX">>, <<MODE_ABY, "AbsoluteY">>,
     <<MODE_INX, "IndexedX">>, <<MODE_INY, "IndexedY">>}

\* C35: assembler and decoder agree on the addressing mode. For ADC and each
\* mode constant m among Immediate, ZeroPage, ZeroPageX, Absolute, AbsoluteX,
\* AbsoluteY, IndexedX and IndexedY, decoding apply_address_mode(ADC, MODE_m)
\* gives the adc handler with exactly the mode m, and distinct modes give
\* distinct opcode bytes.
C35_AssemblerDecoder ==
    (LastIs("assemble") /\ Last.arg[1] = ADC) =>
        \A named \in ModeNames :
            Last.arg[2] = named[1] =>
                /\ Last.ret = apply_address_mode(ADC, named[1])
                /\ Last.op = "adc"
                /\ Last.mode = named[2]
                /\ \A other \in ModeNames :
                      other[2] # named[2] =>
                          apply_address_mode(ADC, other[1]) # Last.ret

\* C36: the two overflow formulas agree. For every m, n and result the V bit
\* update_status computes, with V in the mask, equals the V bit update_v
\* computes for the same three values.
C36_OverflowAgree ==
    LastIs("call") =>
        LET m == Last.arg[1]
            n == Last.arg[2]
            result == Last.arg[3]
            V(status) == Bit(status, 6)
        IN  /\ Last.op = "update_v" =>
                  /\ V(state.status)
                        = V(update_status(Last.pre, m, n, result, V_FLAG).status)
                  /\ \A i \in (0..7) \ {6} :
                        Bit(state.status, i) = Bit(Last.pre.status, i)
            /\ (Last.op = "update_status" /\ Bit(Last.arg[4], 6) = 1) =>
                  V(state.status) = V(update_v(Last.pre, m, n, result).status)

\* update_v on the table's row 0x50 + 0x50 = 0xAE from a clear status sets V
C36_Witness ==
    /\ LastIs("call")
    /\ Last.op = "update_v"
    /\ Last.arg[1] = 80
    /\ Last.arg[2] = 80
    /\ Last.arg[3] = 174
    /\ Last.pre.status = 0
    /\ state.status = V_FLAG

\* whether the last operation was a shift or rotate instruction
ShiftStep == LastIs("exec") /\ Last.op \in {"asl", "lsr", "rol", "ror"}

\* whether it was one of the accumulator opcodes 0x0A, 0x2A, 0x4A, 0x6A
OnAccumulator == Last.arg \in {10, 42, 74, 106}

\* the operand before the instruction and the operand after it: A, or the
\* cell the resolver addresses
Original ==
    IF OnAccumulator THEN Last.pre.a
    ELSE read(Last.pre.mem, lookup(Last.pre, Last.mode).address)

Stored ==
    IF OnAccumulator THEN state.a
    ELSE read(mem, lookup(Last.pre, Last.mode).address)

\* the carry flag before the instruction
CarryIn == Bit(Last.pre.status, 0)

\* the value a 6502 shift or rotate leaves in its operand
Shifted ==
    CASE Last.op = "asl" -> (Original * 2) % 256
      [] Last.op = "lsr" -> Original \div 2
      [] Last.op = "rol" -> ((Original * 2) % 256) + CarryIn
      [] Last.op = "ror" -> (Original \div 2) + (128 * CarryIn)

\* C37: shift and rotate instructions store their result. After ASL, LSR,
\* ROL or ROR the shifted or rotated value is written back to the operand, to
\* A for the accumulator opcodes 0x0A, 0x2A, 0x4A, 0x6A and to the addressed
\* memory cell for the memory forms, and the step completes without a fault.
C37_ShiftStores ==
    ShiftStep =>
        /\ fault = "none"
        /\ Stored = Shifted

\* C38: the carry out of a shift or rotate is the bit shifted out. After LSR
\* or ROR the C flag equals bit 0 of the original operand, after ASL or ROL
\* it equals bit 7 of the original operand, and ROL and ROR shift the
\* previous C flag into bit 0 and bit 7 of the result.
C38_ShiftCarry ==
    (ShiftStep /\ fault = "none") =>
        /\ Bit(state.status, 0) =
              IF Last.op \in {"lsr", "ror"} THEN Bit(Original, 0)
              ELSE Bit(Original, 7)
        /\ Last.op = "rol" => Bit(Stored, 0) = CarryIn
        /\ Last.op = "ror" => Bit(Stored, 7) = CarryIn

\* the processor before the last instruction with its C flag inverted
CarryTwin ==
    [Last.pre EXCEPT !.status =
        IF Has(@, C_FLAG) THEN @ - C_FLAG ELSE @ + C_FLAG]

\* C39: indexed effective addresses do not depend on the carry flag. For two
\* processor states that differ only in the C bit of status the resolver
\* returns the same effective address and charges the same cycles for
\* AbsoluteX, AbsoluteY and IndexedY: the address is the base plus the index
\* register only.
C39_IndexedIgnoresCarry ==
    (LastIs("exec") /\ Last.mode \in {"AbsoluteX", "AbsoluteY", "IndexedY"}
        /\ InRam(Last.pre.pc + 2)) =>
        LET L == lookup(Last.pre, Last.mode)
            T == lookup(CarryTwin, Last.mode)
            index == IF Last.mode = "AbsoluteX" THEN Last.pre.x ELSE Last.pre.y
        IN  /\ L.address = T.address
            /\ L.P.cycles = T.P.cycles
            /\ L.address = IndexBase + index

\* C40: JMP indirect loads a full 16-bit target. For JMP in Indirect mode
\* with the pointer address q taken from the two operand bytes, the new PC
\* is the 16-bit word stored at q and q + 1, so any address in 0..0xFFFF can
\* be reached, not only addresses below 0x100.
C40_JmpIndirectWord ==
    (LastExec("jmp") /\ Last.mode = "Indirect" /\ fault = "none") =>
        LET pre == Last.pre
            q == 256 * read(pre.mem, pre.pc + 1) + read(pre.mem, pre.pc + 2)
        IN  state.pc = read(pre.mem, q) + 256 * read(pre.mem, q + 1)


====
